---------------------------- MODULE Spec2Model ----------------------------
(***************************************************************************)
(* Random Universe Cipher: a model of the block engine, the block modes    *)
(* (CTR, CBC), the authenticated envelope and the RandomUniverseCipher     *)
(* class.                                                                  *)
(*                                                                         *)
(* Byte strings are sequences of 0..255.  A 512-bit register is a sequence *)
(* of REGISTER_BYTES bytes, big-endian (byte 1 is the most significant).   *)
(* SHAKE256 and the ChaCha20 block function are library primitives; they   *)
(* are modelled as a deterministic absorb/squeeze hash over the same input *)
(* bytes and the same output lengths as the calls of the code.             *)
(*                                                                         *)
(* TLC evaluates operator arguments and LET definitions by name.  With     *)
(* evaluates an expression once and hands its value on, as an assignment   *)
(* to a local variable does; an operator whose parameter ends in _ binds   *)
(* it this way before using it.                                            *)
(***************************************************************************)
EXTENDS Integers, Sequences, FiniteSets, TLC

VARIABLES
  pc,        \* position of the scenario that is running
  K,         \* the master key of the running scenario (64 bytes)
  iv,        \* the nonce (16 bytes, CTR/AEAD) or the IV (32 bytes, CBC/block)
  P,         \* the plaintext handed to the encrypting call
  aad,       \* associated data of the AEAD calls
  env,       \* the envelope (or block) returned by the encrypting call
  out,       \* the result of the decrypting call: [status, data]
  encRegs,   \* registers of the encrypting side (block scenario, CBC trace)
  decRegs,   \* registers of the decrypting side
  inst,      \* the RandomUniverseCipher instance, NoInstance before/without one
  arg,       \* the argument of the constructor call
  blockNumber, \* the block index n of the block scenario
  tagState,  \* aeadDecrypt: "unchecked", "short", "match" or "mismatch"
  call,      \* the arguments handed to aeadDecrypt and how they were altered
  pw,        \* decryptWithPassword*: the mode, the salt and the work done so far
  buf,       \* what a call holds before its last step: the decrypted blocks before
             \* unpadding, the selectors before the shuffle
  gen        \* generate_sbox: the candidate, the retry counter and the verdict on it

vars == <<pc, K, iv, P, aad, env, out, encRegs, decRegs, inst, arg, blockNumber, tagState, call, pw, buf, gen>>

With(e, F(_)) == CHOOSE r \in {F(v) : v \in {e}} : TRUE
With2(e1, e2, F(_, _)) == CHOOSE r \in {F(v1, v2) : v1 \in {e1}, v2 \in {e2}} : TRUE
With3(e1, e2, e3, F(_, _, _)) ==
  CHOOSE r \in {F(v1, v2, v3) : v1 \in {e1}, v2 \in {e2}, v3 \in {e3}} : TRUE

\* the result of a call: the data, or the error it throws and no data
Ok(data) == [status |-> "ok", data |-> data]
Throw(error) == [status |-> error, data |-> <<>>]

-----------------------------------------------------------------------------
(* Program constants                                                       *)

KEY_BYTES      == 64
BLOCK_BYTES    == 32
IV_BYTES       == 32
NONCE_BYTES    == 16
REGISTER_BYTES == 64
REGISTER_COUNT == 7
MIN_SELECTORS  == 16
SBOX_SIZE      == 256
GF_POLY        == 27
TAG_BYTES      == 32

(* Bounds of the model.  RoundsBound is the number of rounds the model     *)
(* runs per block: the code runs ROUNDS = 24 times the same round body.    *)
RoundsBound == 2

-----------------------------------------------------------------------------
(* Bytes and big-endian integers                                           *)

Byte == 0..255

Min(a, b) == IF a < b THEN a ELSE b

RECURSIVE BitXor(_, _)
BitXor(a, b) ==
  IF a = 0 THEN b
  ELSE IF b = 0 THEN a
  ELSE (((a % 2) + (b % 2)) % 2) + 2 * BitXor(a \div 2, b \div 2)

XorNibble == SubSeq([a \in 1..16 |-> SubSeq([b \in 1..16 |-> BitXor(a - 1, b - 1)], 1, 16)], 1, 16)

XorCalc(a, b) ==
  16 * XorNibble[(a \div 16) + 1][(b \div 16) + 1] + XorNibble[(a % 16) + 1][(b % 16) + 1]

XorTable == SubSeq([a \in 1..256 |-> SubSeq([b \in 1..256 |-> XorCalc(a - 1, b - 1)], 1, 256)], 1, 256)

\* a XOR b on bytes
Xor8(a, b) == XorTable[a + 1][b + 1]

\* bytewise XOR of two byte strings of the same length
XorBytes(a_, b_) ==
  With2(a_, b_, LAMBDA a, b : SubSeq([i \in 1..Len(a) |-> Xor8(a[i], b[i])], 1, Len(a)))

RECURSIVE Pow2(_)
Pow2(e) == IF e = 0 THEN 1 ELSE 2 * Pow2(e - 1)

\* int_to_bytes(n, len), big-endian, for n < 2^31
intToBytes(n_, len_) ==
  With2(n_, len_, LAMBDA n, len :
    SubSeq([i \in 1..len |->
              IF len - i >= 4 THEN 0 ELSE (n \div Pow2(8 * (len - i))) % 256], 1, len))

\* bytes_to_int(b) mod m, big-endian (Horner, reduced at every byte)
RECURSIVE bytesModFrom(_, _, _, _)
bytesModFrom(b, m, i, acc_) ==
  With(acc_, LAMBDA acc :
    IF i > Len(b) THEN acc ELSE bytesModFrom(b, m, i + 1, (acc * 256 + b[i]) % m))

bytesMod(b_, m) == With(b_, LAMBDA b : bytesModFrom(b, m, 1, 0))

Repeat(v_, k_) == With2(v_, k_, LAMBDA v, k : SubSeq([i \in 1..k |-> v], 1, k))

Zeros(n) == Repeat(0, n)

-----------------------------------------------------------------------------
(* SHAKE256 (library primitive): absorb the input bytes, squeeze `len`     *)
(* bytes.  The model keeps what the code relies on: the output is a        *)
(* function of every input byte and of its position, and a longer output   *)
(* extends a shorter one.                                                  *)

HashP == 32749
HashB == 263

RECURSIVE ModPow(_, _, _)
ModPow(b, e, m) ==
  IF e = 0 THEN 1
  ELSE With(ModPow(b, e \div 2, m), LAMBDA h :
         IF e % 2 = 1 THEN (((h * h) % m) * b) % m ELSE (h * h) % m)

\* HashB^k mod HashP for k = 0..1023, at index k + 1
HashPowers == SubSeq([k \in 1..1024 |-> ModPow(HashB, k - 1, HashP)], 1, 1024)

\* the absorbed state of data[lo..hi]: a polynomial in HashB, split in halves
RECURSIVE Absorb(_, _, _)
Absorb(data, lo_, hi_) ==
  With2(lo_, hi_, LAMBDA lo, hi :
    IF lo > hi THEN 0
    ELSE IF lo = hi THEN (data[lo] + 1) % HashP
    ELSE (Absorb(data, lo, (lo + hi) \div 2) * HashPowers[hi - ((lo + hi) \div 2) + 1]
            + Absorb(data, ((lo + hi) \div 2) + 1, hi)) % HashP)

Squeeze(h_, len_) ==
  With2(h_, len_, LAMBDA h, len :
    SubSeq([j \in 1..len |->
              ((((h + 1) * (((j * 131) + 7) % HashP)) + (j * j)) % HashP) % 256], 1, len))

\* shake256Hash(data, outputLength)
shake256(data_, outputLength) ==
  With(data_, LAMBDA data :
    Squeeze((Absorb(data, 1, Len(data)) + Len(data)) % HashP, outputLength))

\* stringToBytes of the domain tags (ASCII)
DS_REGISTER   == <<82, 85, 67, 45, 82, 69, 71>>
DS_SELECTOR   == <<82, 85, 67, 45, 83, 69, 76>>
DS_PERMUTE    == <<82, 85, 67, 45, 80, 69, 82, 77>>
DS_ROUND_KEY  == <<82, 85, 67, 45, 82, 75>>
DS_SBOX       == <<82, 85, 67, 45, 83, 66, 79, 88>>
DS_CONSTANT   == <<82, 85, 67, 45, 67, 79, 78, 83, 84>>
DS_IV_EXPAND  == <<82, 85, 67, 45, 73, 86, 45, 69, 88, 80, 65, 78, 68>>
DS_PRIORITY   == <<82, 85, 67, 45, 80, 82, 73, 79>>
DS_KEYSTREAM  == <<82, 85, 67, 45, 75, 83>>
DS_CTR_IV     == <<82, 85, 67, 45, 67, 84, 82, 45, 73, 86>>
DS_CTR        == <<67, 84, 82>>
DS_GCM_ENC    == <<82, 85, 67, 45, 71, 67, 77, 45, 69, 78, 67>>
DS_GCM_AUTH   == <<82, 85, 67, 45, 71, 67, 77, 45, 65, 85, 84, 72>>

\* shake256WithDomain(key, domain, index, outputLength): key || domain || 2-byte index
shake256WithDomain(key, domain, index, outputLength) ==
  shake256(key \o domain \o intToBytes(index, 2), outputLength)

\* shake256WithDomainBigInt(key, domain, index, outputLength): 8-byte big-endian index
shake256WithDomainBigInt(key, domain, index, outputLength) ==
  shake256(key \o domain \o intToBytes(index, 8), outputLength)

-----------------------------------------------------------------------------
(* GF(2^8), polynomial x^8 + x^4 + x^3 + x + 1                             *)

RECURSIVE gfMulLoop(_, _, _, _)
gfMulLoop(a_, b_, result_, i) ==
  With3(a_, b_, result_, LAMBDA a, b, result :
    IF i = 8 THEN result
    ELSE LET high_bit == a \div 128
             shifted == (a * 2) % 256
         IN gfMulLoop(IF high_bit # 0 THEN Xor8(shifted, GF_POLY) ELSE shifted,
                      b \div 2,
                      IF b % 2 # 0 THEN Xor8(result, a) ELSE result,
                      i + 1))

\* ordinary multiplication of the two bytes, truncated to a byte
gfMulInteger(a, b) == (a * b) % 256

gfMul(a, b) == gfMulLoop(a, b, 0, 0)

\* a to the n-th power by square and multiply, the empty product being 1
RECURSIVE gfPowLoop(_, _, _)
gfPowLoop(base_, exp_, result_) ==
  With3(base_, exp_, result_, LAMBDA base, exp, result :
    IF exp = 0 THEN result
    ELSE gfPowLoop(gfMul(base, base), exp \div 2,
                   IF exp % 2 = 1 THEN gfMul(result, base) ELSE result))

gfPow(a, n) == gfPowLoop(a, n, 1)

\* the multiplicative inverse a^254, and 0 for 0
gfInverse(a) == IF a = 0 THEN 0 ELSE gfPow(a, 254)

\* the 256 x 256 table of gfMul the implementation may precompute
GF_TABLE == SubSeq([a \in 1..256 |-> SubSeq([b \in 1..256 |-> gfMul(a - 1, b - 1)], 1, 256)], 1, 256)

\* every byte times the multiplier as integers, the overflow of a byte
\* carried into the next more significant one
gfMulRegisterCarry(R_, multiplier_) ==
  With2(R_, multiplier_, LAMBDA R, m :
    SubSeq([i \in 1..Len(R) |->
              ((R[i] * m) + (IF i < Len(R) THEN (R[i + 1] * m) \div 256 ELSE 0)) % 256],
           1, Len(R)))

\* GF_MUL_REGISTER: every byte of the register times the multiplier
gfMulRegister(R_, multiplier_) ==
  With2(R_, multiplier_, LAMBDA R, multiplier :
    SubSeq([i \in 1..Len(R) |-> GF_TABLE[R[i] + 1][multiplier + 1]], 1, Len(R)))

-----------------------------------------------------------------------------
(* 512-bit register arithmetic on big-endian byte strings                  *)

ByteAt(x, i) == IF i >= 1 /\ i <= Len(x) THEN x[i] ELSE 0

\* x << s, bits shifted past the top of the register are discarded
Shl(x_, s_) ==
  With2(x_, s_, LAMBDA x, s :
    With3(s \div 8, Pow2(s % 8), Pow2(8 - (s % 8)), LAMBDA q, up, dn :
      SubSeq([i \in 1..Len(x) |->
                ((ByteAt(x, i + q) * up) % 256) + (ByteAt(x, i + q + 1) \div dn)], 1, Len(x))))

\* ROL(x, s) on the whole register
ROL(x_, s_) ==
  With2(x_, s_, LAMBDA x, s :
    With3((s \div 8) % Len(x), Pow2(s % 8), Pow2(8 - (s % 8)), LAMBDA q, up, dn :
      SubSeq([i \in 1..Len(x) |->
                ((x[((i - 1 + q) % Len(x)) + 1] * up) % 256)
                  + (x[((i + q) % Len(x)) + 1] \div dn)], 1, Len(x))))

\* x << s on an integer of any size: the register with 64 more bytes in
\* front, so that no bit is discarded for s <= 512
ShlWide(x, s) == Shl(Zeros(REGISTER_BYTES) \o x, s)

\* a byte string as the low bytes of a register
ToRegister(b_) == With(b_, LAMBDA b : Zeros(REGISTER_BYTES - Len(b)) \o b)

\* x XOR v for a value v < 2^24 given as an integer (it touches the low 3 bytes)
XorLow(x_, v_) ==
  With2(x_, v_, LAMBDA x, v :
    SubSeq([i \in 1..Len(x) |->
              IF Len(x) - i >= 3 THEN x[i]
              ELSE Xor8(x[i], (v \div Pow2(8 * (Len(x) - i))) % 256)], 1, Len(x)))

-----------------------------------------------------------------------------
(* ChaCha20 keystream reader.  The block function is the RFC 8439          *)
(* primitive, modelled like SHAKE256 as a hash of (key, nonce, counter).   *)

CHACHA_BLOCK == 64

ChaCha20_Block(key, nonce, counter) ==
  With(key \o nonce \o intToBytes(counter, 4), LAMBDA input :
    Squeeze((Absorb(input, 1, Len(input)) + 4099) % HashP, CHACHA_BLOCK))

ChaCha20_Init(key, nonce) ==
  [key |-> key, nonce |-> nonce, counter |-> 0, buffer |-> <<>>, buffer_pos |-> CHACHA_BLOCK]

\* the WHILE loop of ChaCha20_NextBytes; the result is [state, bytes]
RECURSIVE ChaCha20_NextLoop(_, _, _)
ChaCha20_NextLoop(state_, count_, result_) ==
  With3(state_, count_, result_, LAMBDA state, count, result :
    IF count <= 0 THEN [state |-> state, bytes |-> result]
    ELSE With(IF state.buffer_pos >= CHACHA_BLOCK
              THEN [state EXCEPT
                      !.buffer = ChaCha20_Block(state.key, state.nonce, state.counter),
                      !.counter = state.counter + 1,
                      !.buffer_pos = 0]
              ELSE state,
              LAMBDA st1 :
                LET available == CHACHA_BLOCK - st1.buffer_pos
                    take == Min(available, count)
                IN ChaCha20_NextLoop(
                     [st1 EXCEPT !.buffer_pos = st1.buffer_pos + take],
                     count - take,
                     result \o SubSeq(st1.buffer, st1.buffer_pos + 1, st1.buffer_pos + take))))

\* a reader that throws away what is left of the buffer at every request
ChaCha20_NextBytesDiscarding(state, count) ==
  ChaCha20_NextLoop([state EXCEPT !.buffer_pos = CHACHA_BLOCK], count, <<>>)

ChaCha20_NextBytes(state, count) == ChaCha20_NextLoop(state, count, <<>>)

-----------------------------------------------------------------------------
(* Key expansion                                                           *)

\* the swap without the temporary: s[j] is read after s[i] was written
SwapNoTemp(s_, i_, j_) ==
  With3(s_, i_, j_, LAMBDA s, i, j : [s EXCEPT ![i] = s[j], ![j] = s[j]])

Swap(s_, i_, j_) ==
  With3(s_, i_, j_, LAMBDA s, i, j : [s EXCEPT ![i] = s[j], ![j] = s[i]])

\* S-box shuffle: Fisher-Yates from i = 255 down to 1 over the 512 seed bytes;
\* the positions are 0-based in the code, 1-based here.  The swaps hi, hi-1, .., lo
\* are applied in that order (the range is split in halves).
sboxSwapIndex(seed, i) ==
  LET idx == 2 * ((SBOX_SIZE - 1) - i)
      rand_val == seed[idx + 1] * 256 + seed[idx + 2]
  IN rand_val % (i + 1)

RECURSIVE sboxShuffle(_, _, _, _)
sboxShuffle(sbox_, seed, hi_, lo_) ==
  With3(sbox_, hi_, lo_, LAMBDA sbox, hi, lo :
    IF hi < lo THEN sbox
    ELSE IF hi = lo THEN Swap(sbox, hi + 1, sboxSwapIndex(seed, hi) + 1)
    ELSE sboxShuffle(sboxShuffle(sbox, seed, hi, (hi + lo + 1) \div 2),
                     seed, ((hi + lo + 1) \div 2) - 1, lo))

identitySBox == SubSeq([i \in 1..SBOX_SIZE |-> i - 1], 1, SBOX_SIZE)

\* the seed of an attempt: retry 0 is the first attempt, retries append a
\* 2-byte retry counter to the domain separation
sboxSeed(key, round, retry) ==
  IF retry = 0 THEN shake256WithDomain(key, DS_SBOX, round, 2 * SBOX_SIZE)
  ELSE shake256(key \o DS_SBOX \o intToBytes(round, 2) \o intToBytes(retry, 2), 2 * SBOX_SIZE)

\* generate_sbox steps 1 and 2: the shuffle of the identity under a seed
shuffleFromSeed(seed_) ==
  With(seed_, LAMBDA seed : sboxShuffle(identitySBox, seed, SBOX_SIZE - 1, 1))

\* the S-box key expansion uses for a round: the permutation of the first
\* attempt (a retry only changes the seed of the shuffle)
generateSBox(key, round) == shuffleFromSeed(sboxSeed(key, round, 0))

-----------------------------------------------------------------------------
(* S-box property verification                                             *)

Abs(x) == IF x < 0 THEN 0 - x ELSE x
MaxOf(S) == CHOOSE m \in S : \A x \in S : x <= m

RECURSIVE popcount(_)
popcount(x) == IF x = 0 THEN 0 ELSE (x % 2) + popcount(x \div 2)

\* popcount(a & b) mod 2
RECURSIVE ParityAndCalc(_, _)
ParityAndCalc(a, b) ==
  IF a = 0 \/ b = 0 THEN 0
  ELSE (((a % 2) * (b % 2)) + ParityAndCalc(a \div 2, b \div 2)) % 2

ParityAndTable ==
  SubSeq([a \in 1..256 |-> SubSeq([b \in 1..256 |-> ParityAndCalc(a - 1, b - 1)], 1, 256)],
         1, 256)

\* property 1: every value 0..255 appears exactly once
isBijective(sbox) ==
  Len(sbox) = SBOX_SIZE /\ {sbox[i] : i \in 1..SBOX_SIZE} = 0..(SBOX_SIZE - 1)

\* one pass of the in-place transform: the pairs (j, j + h) do not overlap
whtPass(wht_, h) ==
  With(wht_, LAMBDA wht :
    SubSeq([j \in 1..256 |-> IF ((j - 1) \div h) % 2 = 0 THEN wht[j] + wht[j + h]
                                                        ELSE wht[j - h] - wht[j]], 1, 256))

RECURSIVE whtLoop(_, _)
whtLoop(wht, h) == IF h >= 256 THEN wht ELSE whtLoop(whtPass(wht, h), 2 * h)

walshHadamardTransform(f_) ==
  With(f_, LAMBDA f : whtLoop(SubSeq([i \in 1..256 |-> 1 - (2 * f[i])], 1, 256), 1))

\* the largest |w| of the component function of one output mask
maxWalshOfMask(sbox, output_mask) ==
  With(walshHadamardTransform(
         SubSeq([x \in 1..256 |-> ParityAndTable[sbox[x] + 1][output_mask + 1]], 1, 256)),
       LAMBDA wht : MaxOf({Abs(wht[i]) : i \in 1..256}))

computeNonlinearity(sbox_) ==
  With(sbox_, LAMBDA sbox :
    128 - (MaxOf({maxWalshOfMask(sbox, output_mask) : output_mask \in 1..255}) \div 2))

\* the largest count of the row of the difference table of one input difference
ddtRowMax(sbox, input_diff) ==
  With(SubSeq([x \in 1..256 |-> Xor8(sbox[x], sbox[Xor8(x - 1, input_diff) + 1])], 1, 256),
       LAMBDA output_diff :
         MaxOf({Cardinality({x \in 1..256 : output_diff[x] = d}) :
                  d \in {output_diff[x] : x \in 1..256}}))

computeDifferentialUniformity(sbox_) ==
  With(sbox_, LAMBDA sbox : MaxOf({ddtRowMax(sbox, input_diff) : input_diff \in 1..255}))

\* one pass of the in-place Mobius transform: anf[j ^ step] is not written in
\* the pass that reads it
mobiusPass(anf_, step) ==
  With(anf_, LAMBDA anf :
    SubSeq([j \in 1..256 |-> IF ((j - 1) \div step) % 2 = 1
                             THEN (anf[j] + anf[j - step]) % 2 ELSE anf[j]], 1, 256))

RECURSIVE mobiusLoop(_, _)
mobiusLoop(anf, i) == IF i > 7 THEN anf ELSE mobiusLoop(mobiusPass(anf, Pow2(i)), i + 1)

mobiusTransform(f) == mobiusLoop(f, 0)

\* the degree of the component function of one output bit
degreeOfBit(sbox, output_bit) ==
  With(mobiusTransform(
         SubSeq([x \in 1..256 |-> (sbox[x] \div Pow2(output_bit)) % 2], 1, 256)),
       LAMBDA anf : MaxOf({0} \cup {popcount(i - 1) : i \in {k \in 1..256 : anf[k] # 0}}))

computeAlgebraicDegree(sbox_) ==
  With(sbox_, LAMBDA sbox : MaxOf({degreeOfBit(sbox, output_bit) : output_bit \in 0..7}))

\* verify_sbox_properties with the strict thresholds.  Each test is written
\* over its masks or rows so that it stops at the first one that fails:
\* nonlinearity >= 100 iff no mask has |w| above 57, differential
\* uniformity <= 4 iff no row has a count above 4.
verifySBoxProperties(sbox_) ==
  With(sbox_, LAMBDA sbox :
    /\ isBijective(sbox)
    /\ \A output_mask \in 1..255 : maxWalshOfMask(sbox, output_mask) <= 57
    /\ \A input_diff \in 1..255 : ddtRowMax(sbox, input_diff) <= 4
    /\ \E output_bit \in 0..7 : degreeOfBit(sbox, output_bit) >= 7)

-----------------------------------------------------------------------------
(* generate_sbox with its retry loop                                       *)

\* the seed of an attempt: derived from the key, or one of the given SHAKE256
\* outputs
seedFor(a, retry) ==
  IF a.kind = "key" THEN sboxSeed(a.bytes, a.round, retry) ELSE a.seeds[retry + 1]

\* one attempt: shuffle, then verify
sboxAttempt(a, retry) ==
  With(shuffleFromSeed(seedFor(a, retry)), LAMBDA sbox :
    [sbox |-> sbox, retry |-> retry, verified |-> verifySBoxProperties(sbox)])

\* RETURN sbox, after the IF / FOR of step 3
sboxReturn(g) == Ok(g.sbox)

num_selectors(key) == MIN_SELECTORS + (key[2] % 16)

\* key_expand step 3 with 1 added to every value, odd or even
oddSelectorAlwaysPlusOne(sel_bytes_) ==
  With(sel_bytes_, LAMBDA sel_bytes : (sel_bytes[1] * 256) + sel_bytes[2] + 1)

\* key_expand step 3: the selector of two SHAKE256 bytes, forced odd and non-zero
oddSelector(sel_bytes_) ==
  With(sel_bytes_, LAMBDA sel_bytes :
    With((sel_bytes[1] * 256) + sel_bytes[2], LAMBDA selector :
      With(IF selector % 2 = 0 THEN selector + 1 ELSE selector, LAMBDA odd :
        IF odd = 0 THEN 1 ELSE odd)))

\* key_expand step 3: selector i of a key
rawSelector(key, i) == oddSelector(shake256WithDomain(key, DS_SELECTOR, i, 2))

\* key_expand step 4: Fisher-Yates over the selectors driven by the ChaCha20 reader;
\* st is [SEL, prng], one step is the loop body for one i
permuteStep(st_, i) ==
  With(st_, LAMBDA st :
    With(ChaCha20_NextBytes(st.prng, 4), LAMBDA nb :
      [SEL |-> Swap(st.SEL, i + 1, bytesMod(nb.bytes, i + 1) + 1), prng |-> nb.state]))

\* FOR i FROM hi DOWN TO lo (the range is split in halves)
RECURSIVE permuteSelectors(_, _, _)
permuteSelectors(st_, hi_, lo_) ==
  With3(st_, hi_, lo_, LAMBDA st, hi, lo :
    IF hi < lo THEN st
    ELSE IF hi = lo THEN permuteStep(st, hi)
    ELSE permuteSelectors(permuteSelectors(st, hi, (hi + lo + 1) \div 2),
                          ((hi + lo + 1) \div 2) - 1, lo))

expandKey(key_) ==
  With(key_, LAMBDA key :
    [ registers |-> SubSeq([i \in 1..REGISTER_COUNT |->
                              shake256(key \o DS_REGISTER \o <<i - 1>>, REGISTER_BYTES)],
                           1, REGISTER_COUNT),
      selectors |-> permuteSelectors(
                      [SEL |-> SubSeq([i \in 1..num_selectors(key) |-> rawSelector(key, i - 1)],
                                      1, num_selectors(key)),
                       prng |-> ChaCha20_Init(shake256(key \o DS_PERMUTE, 32), Zeros(12))],
                      num_selectors(key) - 1, 1).SEL,
      roundKeys |-> SubSeq([r \in 1..RoundsBound |->
                              shake256WithDomain(key, DS_ROUND_KEY, r - 1, REGISTER_BYTES)],
                           1, RoundsBound),
      sboxes    |-> SubSeq([r \in 1..RoundsBound |-> generateSBox(key, r - 1)],
                           1, RoundsBound) ])

\* createCipherState: a working copy of the key-expanded registers
createCipherState(keyMaterial) == keyMaterial.registers

\* mix_iv_into_state step 2: R[i] ^= ROL(iv_int, (i * 73) mod 512)
mixIVRotate(R_, iv_int_) ==
  With2(R_, iv_int_, LAMBDA R, iv_int :
    SubSeq([i \in 1..REGISTER_COUNT |->
              XorBytes(R[i], ROL(iv_int, ((i - 1) * 73) % (8 * REGISTER_BYTES)))],
           1, REGISTER_COUNT))

\* mix_iv_into_state step 3, one pass over i = 0..6, in place
RECURSIVE mixIVCross(_, _)
mixIVCross(R_, i_) ==
  With2(R_, i_, LAMBDA R, i :
    IF i >= REGISTER_COUNT THEN R
    ELSE mixIVCross(
           [R EXCEPT ![i + 1] =
              XorBytes(XorBytes(R[i + 1], ROL(R[((i + 1) % REGISTER_COUNT) + 1], 17)),
                       ROL(R[((i + 3) % REGISTER_COUNT) + 1], 41))],
           i + 1))

mixIVIntoState(R, IV) ==
  mixIVCross(mixIVCross(mixIVCross(
    mixIVRotate(R, shake256(IV \o DS_IV_EXPAND, REGISTER_BYTES)), 0), 0), 0)

-----------------------------------------------------------------------------
(* Round engine: encrypt_block / decrypt_block                             *)

\* Step 1: the priority of selector slot j, read from the ChaCha20 reader;
\* st is [prng, priorities]
priorityStep(st_, SEL, j) ==
  With(st_, LAMBDA st :
    With(ChaCha20_NextBytes(st.prng, 4), LAMBDA nb :
      [prng |-> nb.state,
       priorities |-> Append(st.priorities,
                             [sel |-> SEL[j],
                              priority |-> bytesMod(nb.bytes, REGISTER_COUNT),
                              j |-> j])]))

\* FOR j FROM lo TO hi (the range is split in halves)
RECURSIVE selectorPriorities(_, _, _, _)
selectorPriorities(st_, SEL, lo_, hi_) ==
  With3(st_, lo_, hi_, LAMBDA st, lo, hi :
    IF lo > hi THEN st
    ELSE IF lo = hi THEN priorityStep(st, SEL, lo)
    ELSE selectorPriorities(selectorPriorities(st, SEL, lo, (lo + hi) \div 2),
                            SEL, ((lo + hi) \div 2) + 1, hi))

\* stable sort by priority: the slots of priority 0 in slot order, then 1, ...
stableSortByPriority(priorities_) ==
  With(priorities_, LAMBDA priorities :
    SelectSeq(priorities, LAMBDA x : x.priority = 0)
      \o SelectSeq(priorities, LAMBDA x : x.priority = 1)
      \o SelectSeq(priorities, LAMBDA x : x.priority = 2)
      \o SelectSeq(priorities, LAMBDA x : x.priority = 3)
      \o SelectSeq(priorities, LAMBDA x : x.priority = 4)
      \o SelectSeq(priorities, LAMBDA x : x.priority = 5)
      \o SelectSeq(priorities, LAMBDA x : x.priority = 6))

orderedSelectors(key, IV, n, SEL_) ==
  With2(SEL_, shake256(key \o IV \o intToBytes(n, 8) \o DS_PRIORITY, 32),
        LAMBDA SEL, priority_seed :
    With(stableSortByPriority(
           selectorPriorities([prng |-> ChaCha20_Init(priority_seed, Zeros(12)),
                               priorities |-> <<>>], SEL, 1, Len(SEL)).priorities),
         LAMBDA sorted : SubSeq([k \in 1..Len(SEL) |-> sorted[k].sel], 1, Len(SEL))))

\* key_const(sel): first byte of SHAKE256(K || "RUC-CONST" || int_to_bytes(sel, 2), 1)
keyConst(key, sel) == shake256WithDomain(key, DS_CONSTANT, sel, 1)[1]

\* Step 3a.i: place_idx = ((R[0] & 0xFFFFFFFF) XOR sel XOR (RK[r] & 0xFFFFFFFF)) mod 7
placeIdx(R0, sel, RKr) ==
  With(XorBytes(SubSeq(R0, REGISTER_BYTES - 3, REGISTER_BYTES),
                SubSeq(RKr, REGISTER_BYTES - 3, REGISTER_BYTES)),
       LAMBDA x :
         bytesMod(<<x[1], x[2], Xor8(x[3], sel \div 256), Xor8(x[4], sel % 256)>>,
                  REGISTER_COUNT))

\* Step 3a.ii: result = S[r][GF_MUL(temp & 0xFF, state_byte) XOR key_const]
selectorResult(sel, state_byte, key_const, sbox) ==
  LET temp == (sel * 2) % 65536
      gf_result == Xor8(GF_TABLE[(temp % 256) + 1][state_byte + 1], key_const)
  IN sbox[gf_result + 1]

\* Step 3a.iii: the update of R[place_idx]
updateRegister(reg, next_reg, result, sel, sbox) ==
  With(XorLow(gfMulRegister(reg, result), result * Pow2(sel % 16)), LAMBDA r2 :
    XorBytes(ROL(XorLow(r2, sbox[r2[REGISTER_BYTES] + 1]), 1), next_reg))

\* the selector step with the accumulator shifted up a byte before the add
selectorStepAccShift(st_, sel_, key_const, sbox, RKr) ==
  With2(st_, sel_, LAMBDA st, sel :
    With(placeIdx(st.R[1], sel, RKr), LAMBDA place_idx :
      With(selectorResult(sel, st.R[place_idx + 1][1], key_const, sbox), LAMBDA result :
        [R |-> [st.R EXCEPT ![place_idx + 1] =
                  updateRegister(st.R[place_idx + 1],
                                 st.R[((place_idx + 1) % REGISTER_COUNT) + 1],
                                 result, sel, sbox)],
         ACC |-> (st.ACC * 256) + result])))

\* Steps 3a.i-3a.iv for one selector; st is [R, ACC]
selectorStep(st_, sel_, key_const, sbox, RKr) ==
  With2(st_, sel_, LAMBDA st, sel :
    With(placeIdx(st.R[1], sel, RKr), LAMBDA place_idx :
      With(selectorResult(sel, st.R[place_idx + 1][1], key_const, sbox), LAMBDA result :
        [R |-> [st.R EXCEPT ![place_idx + 1] =
                  updateRegister(st.R[place_idx + 1],
                                 st.R[((place_idx + 1) % REGISTER_COUNT) + 1],
                                 result, sel, sbox)],
         ACC |-> st.ACC + result])))

\* Step 3a: FOR sel IN ordered_selectors, here the slots lo..hi (the range is
\* split in halves); block is [ordered, consts] of this block
RECURSIVE selectorLoop(_, _, _, _, _, _)
selectorLoop(st_, block, sbox, RKr, lo_, hi_) ==
  With3(st_, lo_, hi_, LAMBDA st, lo, hi :
    IF lo > hi THEN st
    ELSE IF lo = hi
         THEN selectorStep(st, block.ordered[lo], block.consts[lo], sbox, RKr)
         ELSE selectorLoop(selectorLoop(st, block, sbox, RKr, lo, (lo + hi) \div 2),
                           block, sbox, RKr, ((lo + hi) \div 2) + 1, hi))

\* the diffusion with every register read before any is written
interRoundMixSnapshot(R_, i_) ==
  With(R_, LAMBDA R :
    SubSeq([k \in 1..REGISTER_COUNT |->
              XorBytes(XorBytes(R[k], R[(k % REGISTER_COUNT) + 1]),
                       R[((k + 1) % REGISTER_COUNT) + 1])],
           1, REGISTER_COUNT))

\* Step 3b: inter-round state mixing, FOR i FROM 0 TO 6, in place
RECURSIVE interRoundMix(_, _)
interRoundMix(R_, i_) ==
  With2(R_, i_, LAMBDA R, i :
    IF i >= REGISTER_COUNT THEN R
    ELSE interRoundMix(
           [R EXCEPT ![i + 1] =
              XorBytes(XorBytes(R[i + 1], R[((i + 1) % REGISTER_COUNT) + 1]),
                       R[((i + 2) % REGISTER_COUNT) + 1])],
           i + 1))

\* Step 3: FOR r FROM 0 TO ROUNDS - 1
RECURSIVE roundLoop(_, _, _, _)
roundLoop(st_, block, keyMaterial, r_) ==
  With2(st_, r_, LAMBDA st, r :
    IF r >= RoundsBound THEN st
    ELSE With(selectorLoop(st, block, keyMaterial.sboxes[r + 1],
                           keyMaterial.roundKeys[r + 1], 1, Len(block.ordered)),
              LAMBDA s1 :
                roundLoop([R |-> interRoundMix(s1.R, 0), ACC |-> s1.ACC],
                          block, keyMaterial, r + 1)))

\* Steps 1-4: the keystream of block n and the registers after the rounds
blockKeystream(key, IV, n, R, keyMaterial) ==
  With(orderedSelectors(key, IV, n, keyMaterial.selectors), LAMBDA ordered :
    With([ordered |-> ordered,
          consts |-> SubSeq([j \in 1..Len(ordered) |-> keyConst(key, ordered[j])],
                            1, Len(ordered))],
         LAMBDA block :
      With(roundLoop([R |-> R, ACC |-> 0], block, keyMaterial, 0), LAMBDA st :
        [R |-> st.R,
         keystream |->
           shake256(intToBytes(st.ACC, 128) \o st.R[1] \o st.R[2] \o st.R[3] \o st.R[4]
                      \o st.R[5] \o st.R[6] \o st.R[7] \o DS_KEYSTREAM \o intToBytes(n, 8),
                    BLOCK_BYTES)])))

\* a feedback shift with the multiplier and modulus of the IV rotation
feedbackShiftAsRotation(i) == (i * 73) % 512

\* feedback_shift = (i * 37) mod 256
feedbackShift(i) == (i * 37) % 256

\* Step 6: R[i] ^= C_int << feedback_shift
ciphertextFeedback(R_, C_) ==
  With2(R_, ToRegister(C_), LAMBDA R, C_int :
    SubSeq([i \in 1..REGISTER_COUNT |->
              XorBytes(R[i], Shl(C_int, feedbackShift(i - 1)))], 1, REGISTER_COUNT))

\* encrypt_block with the feedback taken from the plaintext
encryptBlockPlainFeedback(Pb, key_, IV_, n, R_, keyMaterial_) ==
  With3(key_, IV_, keyMaterial_, LAMBDA key, IV, keyMaterial :
    With(blockKeystream(key, IV, n, R_, keyMaterial), LAMBDA ks :
      [C |-> XorBytes(Pb, ks.keystream), R |-> ciphertextFeedback(ks.R, Pb)]))

\* encrypt_block: the ciphertext block C and the registers it leaves
encryptBlock(Pb, key_, IV_, n, R_, keyMaterial_) ==
  With3(key_, IV_, keyMaterial_, LAMBDA key, IV, keyMaterial :
    With(blockKeystream(key, IV, n, R_, keyMaterial), LAMBDA ks :
      With(XorBytes(Pb, ks.keystream), LAMBDA C :
        [C |-> C, R |-> ciphertextFeedback(ks.R, C)])))

\* decrypt_block with the feedback taken from the recovered plaintext
decryptBlockPlainFeedback(Cb_, key_, IV_, n, R_, keyMaterial_) ==
  With3(key_, IV_, keyMaterial_, LAMBDA key, IV, keyMaterial :
    With2(Cb_, blockKeystream(key, IV, n, R_, keyMaterial), LAMBDA Cb, ks :
      With(XorBytes(Cb, ks.keystream), LAMBDA Pb :
        [P |-> Pb, R |-> ciphertextFeedback(ks.R, Pb)])))

\* decrypt_block: the plaintext block P and the registers it leaves;
\* the feedback uses the ciphertext
decryptBlock(Cb_, key_, IV_, n, R_, keyMaterial_) ==
  With3(key_, IV_, keyMaterial_, LAMBDA key, IV, keyMaterial :
    With2(Cb_, blockKeystream(key, IV, n, R_, keyMaterial), LAMBDA Cb, ks :
      [P |-> XorBytes(Cb, ks.keystream), R |-> ciphertextFeedback(ks.R, Cb)]))

-----------------------------------------------------------------------------
(* Padding                                                                 *)

\* pkcs7_pad that adds no block to data already a multiple of the block size
pkcs7_padNoFullBlock(data_, block_size) ==
  With(data_, LAMBDA data :
    With((block_size - (Len(data) % block_size)) % block_size, LAMBDA padding_len :
      data \o Repeat(padding_len, padding_len)))

pkcs7_pad(data_, block_size) ==
  With(data_, LAMBDA data :
    With(block_size - (Len(data) % block_size), LAMBDA rem :
      With(IF rem = 0 THEN block_size ELSE rem, LAMBDA padding_len :
        data \o Repeat(padding_len, padding_len))))

\* pkcs7_unpad that takes a whole block of padding for data
pkcs7_unpadKeepsFullBlock(data_) ==
  With(data_, LAMBDA data :
    IF Len(data) = 0 THEN Throw("EmptyData")
    ELSE With(data[Len(data)], LAMBDA padding_len :
           IF padding_len = 0 \/ padding_len > Len(data) THEN Throw("InvalidPadding")
           ELSE IF \E i \in (Len(data) - padding_len + 1)..Len(data) : data[i] # padding_len
                THEN Throw("InvalidPadding")
                ELSE IF padding_len = BLOCK_BYTES THEN Ok(data)
                ELSE Ok(SubSeq(data, 1, Len(data) - padding_len))))

pkcs7_unpad(data_) ==
  With(data_, LAMBDA data :
    IF Len(data) = 0 THEN Throw("EmptyData")
    ELSE With(data[Len(data)], LAMBDA padding_len :
           IF padding_len = 0 \/ padding_len > Len(data) THEN Throw("InvalidPadding")
           ELSE IF \E i \in (Len(data) - padding_len + 1)..Len(data) : data[i] # padding_len
                THEN Throw("InvalidPadding")
                ELSE Ok(SubSeq(data, 1, Len(data) - padding_len))))

\* block n (0-based) of a byte string
BlockOf(data, n) == SubSeq(data, (n * BLOCK_BYTES) + 1, (n + 1) * BLOCK_BYTES)

RECURSIVE concatFrom(_, _)
concatFrom(blocks, i) ==
  IF i > Len(blocks) THEN <<>> ELSE blocks[i] \o concatFrom(blocks, i + 1)

concat(blocks_) == With(blocks_, LAMBDA blocks : concatFrom(blocks, 1))

-----------------------------------------------------------------------------
(* CTR mode                                                                *)

\* the per-block state: a copy of R_init with the counter folded into R[0]
ctrBlockState(R_init, n) ==
  [R_init EXCEPT ![1] = XorBytes(@, shake256(intToBytes(n, 8) \o DS_CTR, REGISTER_BYTES))]

\* encryptCTR that returns the ciphertext without the nonce in front
encryptCTRWithoutNonce(plaintext, key_, nonce_) ==
  With3(key_, nonce_, pkcs7_pad(plaintext, BLOCK_BYTES), LAMBDA key, nonce, padded :
    With2(shake256(nonce \o DS_CTR_IV, IV_BYTES), expandKey(key), LAMBDA IV, keyMaterial :
      With(mixIVIntoState(createCipherState(keyMaterial), IV), LAMBDA R_init :
        concat(SubSeq([b \in 1..(Len(padded) \div BLOCK_BYTES) |->
                         encryptBlock(BlockOf(padded, b - 1), key, IV, b - 1,
                                      ctrBlockState(R_init, b - 1), keyMaterial).C],
                      1, Len(padded) \div BLOCK_BYTES)))))

\* CTR encryption in which block b starts from the registers block b - 1
\* left behind, ciphertext feedback included, instead of a copy of R_init
RECURSIVE ctrChainedLoop(_, _, _, _, _, _)
ctrChainedLoop(st_, padded, key, IV, keyMaterial, n_) ==
  With2(st_, n_, LAMBDA st, n :
    IF n >= Len(padded) \div BLOCK_BYTES THEN st
    ELSE With(encryptBlock(BlockOf(padded, n), key, IV, n, ctrBlockState(st.R, n), keyMaterial),
              LAMBDA e :
                ctrChainedLoop([R |-> e.R, body |-> st.body \o e.C], padded, key, IV,
                               keyMaterial, n + 1)))

encryptCTRChained(plaintext, key_, nonce_) ==
  With3(key_, nonce_, pkcs7_pad(plaintext, BLOCK_BYTES), LAMBDA key, nonce, padded :
    With2(shake256(nonce \o DS_CTR_IV, IV_BYTES), expandKey(key), LAMBDA IV, keyMaterial :
      With(mixIVIntoState(createCipherState(keyMaterial), IV), LAMBDA R_init :
        nonce \o ctrChainedLoop([R |-> R_init, body |-> <<>>], padded, key, IV,
                                keyMaterial, 0).body)))

\* RUC_CTR_Encrypt: nonce || ciphertext
encryptCTR(plaintext, key_, nonce_) ==
  With3(key_, nonce_, pkcs7_pad(plaintext, BLOCK_BYTES), LAMBDA key, nonce, padded :
    With2(shake256(nonce \o DS_CTR_IV, IV_BYTES), expandKey(key), LAMBDA IV, keyMaterial :
      With(mixIVIntoState(createCipherState(keyMaterial), IV), LAMBDA R_init :
        nonce \o concat(SubSeq([b \in 1..(Len(padded) \div BLOCK_BYTES) |->
                                  encryptBlock(BlockOf(padded, b - 1), key, IV, b - 1,
                                               ctrBlockState(R_init, b - 1), keyMaterial).C],
                               1, Len(padded) \div BLOCK_BYTES)))))

\* the blocks of decryptCTR, still padded
ctrDecryptBlocks(body_, key_, nonce) ==
  With3(body_, key_, shake256(nonce \o DS_CTR_IV, IV_BYTES), LAMBDA body, key, IV :
    With(expandKey(key), LAMBDA keyMaterial :
      With(mixIVIntoState(createCipherState(keyMaterial), IV), LAMBDA R_init :
        concat(SubSeq([b \in 1..(Len(body) \div BLOCK_BYTES) |->
                         decryptBlock(BlockOf(body, b - 1), key, IV, b - 1,
                                      ctrBlockState(R_init, b - 1), keyMaterial).P],
                      1, Len(body) \div BLOCK_BYTES)))))

\* decryptCTR(ciphertext, key): the nonce is read from the envelope
decryptCTR(ciphertext_, key) ==
  With(ciphertext_, LAMBDA ciphertext :
    IF Len(ciphertext) < NONCE_BYTES + BLOCK_BYTES
         \/ (Len(ciphertext) - NONCE_BYTES) % BLOCK_BYTES # 0
    THEN Throw("InvalidCiphertextLength")
    ELSE pkcs7_unpad(ctrDecryptBlocks(SubSeq(ciphertext, NONCE_BYTES + 1, Len(ciphertext)),
                                      key, SubSeq(ciphertext, 1, NONCE_BYTES))))

-----------------------------------------------------------------------------
(* CBC mode: the registers are carried from block to block                 *)

\* the FOR loop of RUC_CBC_Encrypt; st is [R, prev_C, ciphertext, states]
RECURSIVE cbcEncryptLoop(_, _, _, _, _, _)
cbcEncryptLoop(st_, padded, key, IV, keyMaterial, n_) ==
  With2(st_, n_, LAMBDA st, n :
    IF n >= Len(padded) \div BLOCK_BYTES THEN st
    ELSE With(encryptBlock(XorBytes(BlockOf(padded, n), st.prev_C), key, IV, n, st.R,
                           keyMaterial),
              LAMBDA e :
                cbcEncryptLoop([R |-> e.R, prev_C |-> e.C,
                                ciphertext |-> st.ciphertext \o e.C,
                                states |-> Append(st.states, e.R)],
                               padded, key, IV, keyMaterial, n + 1)))

\* RUC_CBC_Encrypt: envelope is what the call returns, IV || ciphertext; states
\* are the registers it went through, one entry per block
encryptCBC(plaintext, key_, IV_) ==
  With3(key_, IV_, pkcs7_pad(plaintext, BLOCK_BYTES), LAMBDA key, IV, padded :
    With(expandKey(key), LAMBDA keyMaterial :
      With(cbcEncryptLoop([R |-> mixIVIntoState(createCipherState(keyMaterial), IV),
                           prev_C |-> IV, ciphertext |-> <<>>, states |-> <<>>],
                          padded, key, IV, keyMaterial, 0),
           LAMBDA run : [envelope |-> IV \o run.ciphertext, states |-> run.states])))

\* the loop of decryptCBC; st is [R, prev_C, padded, states]
RECURSIVE cbcDecryptLoop(_, _, _, _, _, _)
cbcDecryptLoop(st_, body, key, IV, keyMaterial, n_) ==
  With2(st_, n_, LAMBDA st, n :
    IF n >= Len(body) \div BLOCK_BYTES THEN st
    ELSE With2(BlockOf(body, n),
               decryptBlock(BlockOf(body, n), key, IV, n, st.R, keyMaterial),
               LAMBDA C, d :
                 cbcDecryptLoop([R |-> d.R, prev_C |-> C,
                                 padded |-> st.padded \o XorBytes(d.P, st.prev_C),
                                 states |-> Append(st.states, d.R)],
                                body, key, IV, keyMaterial, n + 1)))

cbcDecryptRun(ciphertext_, key_) ==
  With2(ciphertext_, key_, LAMBDA ciphertext, key :
    With3(SubSeq(ciphertext, 1, IV_BYTES),
          SubSeq(ciphertext, IV_BYTES + 1, Len(ciphertext)),
          expandKey(key),
          LAMBDA IV, body, keyMaterial :
            cbcDecryptLoop([R |-> mixIVIntoState(createCipherState(keyMaterial), IV),
                            prev_C |-> IV, padded |-> <<>>, states |-> <<>>],
                           body, key, IV, keyMaterial, 0)))

\* decryptCBC(ciphertext, key): the IV is read from the envelope; result is what
\* the call returns or throws, states are the registers it went through
decryptCBC(ciphertext_, key) ==
  With(ciphertext_, LAMBDA ciphertext :
    IF Len(ciphertext) < IV_BYTES + BLOCK_BYTES
         \/ (Len(ciphertext) - IV_BYTES) % BLOCK_BYTES # 0
    THEN [result |-> Throw("InvalidCiphertextLength"), states |-> <<>>]
    ELSE With(cbcDecryptRun(ciphertext, key), LAMBDA run :
           [result |-> pkcs7_unpad(run.padded), states |-> run.states]))

-----------------------------------------------------------------------------
(* AEAD: CTR under enc_key, then a tag over the associated data and the    *)
(* ciphertext; envelope = nonce || ciphertext || tag                       *)

\* pad_to_128bit_boundary
pad16(x_) == With(x_, LAMBDA x : x \o Zeros((16 - (Len(x) % 16)) % 16))

\* ghash_input without the ciphertext
ghashInputAadOnly(aad_, ct_) ==
  With2(aad_, ct_, LAMBDA a, ct :
    pad16(a) \o intToBytes(Len(a) * 8, 8) \o intToBytes(Len(ct) * 8, 8))

\* ghash_input without the two lengths
ghashInputNoLengths(aad_, ct_) ==
  With2(aad_, ct_, LAMBDA a, ct : pad16(a) \o pad16(ct))

\* ghash_input: pad16(aad) || pad16(ciphertext) || u64be(|aad| * 8) || u64be(|ct| * 8)
ghashInput(aad_, ct_) ==
  With2(aad_, ct_, LAMBDA a, ct :
    pad16(a) \o pad16(ct) \o intToBytes(Len(a) * 8, 8) \o intToBytes(Len(ct) * 8, 8))

\* the encryption of the zero-counter block, the mask of the tag
counter0Block(enc_key_, nonce) ==
  With2(enc_key_, shake256(nonce \o DS_CTR_IV, IV_BYTES), LAMBDA enc_key, IV :
    With(expandKey(enc_key), LAMBDA keyMaterial :
      encryptBlock(Zeros(BLOCK_BYTES), enc_key, IV, 0,
                   ctrBlockState(mixIVIntoState(createCipherState(keyMaterial), IV), 0),
                   keyMaterial).C))

\* the tag: the keyed hash of ghash_input under H = auth_key, masked
computeTag(auth_key, enc_key, nonce, aad_, ct) ==
  XorBytes(shake256(auth_key \o ghashInput(aad_, ct), TAG_BYTES),
           SubSeq(counter0Block(enc_key, nonce), 1, TAG_BYTES))

encKeyOf(key) == shake256(key \o DS_GCM_ENC, KEY_BYTES)
authKeyOf(key) == shake256(key \o DS_GCM_AUTH, 32)

\* aeadEncrypt(plaintext, key, associatedData) with the nonce it draws
aeadEncrypt(plaintext, key_, nonce, aad_) ==
  With2(encKeyOf(key_), authKeyOf(key_), LAMBDA enc_key, auth_key :
    With(encryptCTR(plaintext, enc_key, nonce), LAMBDA sealed :
      sealed \o computeTag(auth_key, enc_key, nonce, aad_,
                           SubSeq(sealed, NONCE_BYTES + 1, Len(sealed)))))

\* the tag comparison, constant-time in the code
constantTimeEqual(a, b) == a = b

\* aeadDecrypt, first part: the length check and the tag check
aeadCheck(envelope_, key_, aad_) ==
  With(envelope_, LAMBDA envelope :
    IF Len(envelope) < NONCE_BYTES + BLOCK_BYTES + TAG_BYTES THEN "short"
    ELSE With2(encKeyOf(key_), authKeyOf(key_), LAMBDA enc_key, auth_key :
           IF constantTimeEqual(
                SubSeq(envelope, Len(envelope) - TAG_BYTES + 1, Len(envelope)),
                computeTag(auth_key, enc_key, SubSeq(envelope, 1, NONCE_BYTES), aad_,
                           SubSeq(envelope, NONCE_BYTES + 1, Len(envelope) - TAG_BYTES)))
           THEN "match" ELSE "mismatch"))

\* aeadDecrypt that decrypts whatever the tag check said
aeadOpenUnverified(envelope, key, check) ==
  IF check = "short" THEN Throw("InvalidCiphertextLength")
  ELSE decryptCTR(SubSeq(envelope, 1, Len(envelope) - TAG_BYTES), encKeyOf(key))

\* aeadDecrypt, second part: what the call returns or throws after the check
aeadOpen(envelope, key, check) ==
  IF check = "short" THEN Throw("InvalidCiphertextLength")
  ELSE IF check # "match" THEN Throw("AuthenticationFailed")
  ELSE decryptCTR(SubSeq(envelope, 1, Len(envelope) - TAG_BYTES), encKeyOf(key))

aeadDecrypt(envelope, key, aad_) == aeadOpen(envelope, key, aeadCheck(envelope, key, aad_))

-----------------------------------------------------------------------------
(* RandomUniverseCipher: the constructor and getKey                        *)

NoInstance == [created |-> FALSE, key |-> <<>>]

DefaultSalt == <<82, 85, 67, 45, 83, 65, 76, 84>>

\* deriveKey(password, salt, outputLength)
deriveKey(password, salt, outputLength) == shake256(password \o salt, outputLength)

deriveKeyFromPassword(password) == deriveKey(password, DefaultSalt, KEY_BYTES)

\* the constructor that only rejects keys that are too short
newCipherTooShortOnly(key) ==
  IF key.kind = "string"
  THEN [threw |-> FALSE,
        instance |-> [created |-> TRUE, key |-> deriveKeyFromPassword(key.bytes)]]
  ELSE IF Len(key.bytes) < KEY_BYTES
       THEN [threw |-> TRUE, instance |-> NoInstance]
       ELSE [threw |-> FALSE, instance |-> [created |-> TRUE, key |-> key.bytes]]

\* new RandomUniverseCipher(key): what the caller gets, an instance or the throw
newCipher(key) ==
  IF key.kind = "string"
  THEN [threw |-> FALSE,
        instance |-> [created |-> TRUE, key |-> deriveKeyFromPassword(key.bytes)]]
  ELSE IF Len(key.bytes) # KEY_BYTES
       THEN [threw |-> TRUE, instance |-> NoInstance]
       ELSE [threw |-> FALSE, instance |-> [created |-> TRUE, key |-> key.bytes]]

\* getKey(): a copy of the key
getKey(instance) == instance.key

-----------------------------------------------------------------------------
(* Password-based decryption with the salt bundled in front                *)

SALT_SIZE == 16

\* KDFLevel: 'interactive', 'moderate', 'sensitive'
KDFLevels == {1, 2, 3}

\* deriveKeyArgon2(password, salt, level): the key the KDF derives
deriveKeyArgon2(password, salt, level) ==
  shake256(password \o salt \o <<65, 50, level>>, KEY_BYTES)

\* the length check of decryptWithPasswordAEAD that leaves the tag out
pwTooShortNoTag(ciphertext, mode) == Len(ciphertext) < SALT_SIZE + NONCE_BYTES + BLOCK_BYTES

\* the length check of decryptWithPassword ("ctr") and decryptWithPasswordAEAD ("aead")
pwTooShort(ciphertext, mode) ==
  IF mode = "aead"
  THEN Len(ciphertext) < SALT_SIZE + NONCE_BYTES + BLOCK_BYTES + 32
  ELSE Len(ciphertext) < SALT_SIZE + NONCE_BYTES + BLOCK_BYTES

\* the bundle with the salt behind the encrypted data
bundleSaltLast(salt, encrypted) == encrypted \o salt

\* result.set(salt, 0); result.set(encrypted, SALT_SIZE)
bundleSalt(salt, encrypted) == salt \o encrypted

\* encryptWithPasswordAEAD; salt and nonce are the random bytes drawn
encryptWithPasswordAEAD(plaintext, password, associatedData, level, salt_, nonce) ==
  With(salt_, LAMBDA salt :
    With(newCipher([kind |-> "bytes", bytes |-> deriveKeyArgon2(password, salt, level)]).instance,
         LAMBDA cipher :
      bundleSalt(salt, aeadEncrypt(plaintext, cipher.key, nonce, associatedData))))

\* decryptWithPasswordAEAD
decryptWithPasswordAEAD(ciphertext_, password, associatedData, level) ==
  With(ciphertext_, LAMBDA ciphertext :
    IF pwTooShort(ciphertext, "aead") THEN Throw("InvalidCiphertextLength")
    ELSE With(newCipher([kind |-> "bytes",
                         bytes |-> deriveKeyArgon2(password, SubSeq(ciphertext, 1, SALT_SIZE),
                                                   level)]).instance,
              LAMBDA cipher :
           aeadDecrypt(SubSeq(ciphertext, SALT_SIZE + 1, Len(ciphertext)), cipher.key,
                       associatedData)))

-----------------------------------------------------------------------------
(* Cipher states as objects: the key material and the states made from it. *)
(* A reference is 0 for the registers of the key material and k for the    *)
(* k-th state; the block functions write the registers they were handed    *)

newHeap(keyMaterial) == [keyMaterial |-> keyMaterial, states |-> <<>>]

readRegisters(heap, ref) ==
  IF ref = 0 THEN heap.keyMaterial.registers ELSE heap.states[ref]

writeRegisters(heap, ref, R) ==
  IF ref = 0 THEN [heap EXCEPT !.keyMaterial.registers = R]
  ELSE [heap EXCEPT !.states[ref] = R]

\* no copy: the reference handed out is the one copied from
shareRegisters(heap, src) == [heap |-> heap, ref |-> src]

\* deep_copy: a new state holding the registers read at src
deepCopy(heap, src) ==
  [heap |-> [heap EXCEPT !.states = Append(@, readRegisters(heap, src))],
   ref |-> Len(heap.states) + 1]

-----------------------------------------------------------------------------
(* Inputs of the scenarios                                                 *)

MaxPlainLen == 64
MaxBlockNumber == 1

KeySeeds == {1, 2}
IVSeeds == {1, 2}
PlainSeeds == {0, 1, 2}

\* 64-byte keys; the second key byte differs, and so does the selector count
KeyOf(seed) ==
  SubSeq([i \in 1..KEY_BYTES |-> ((seed * 17) + (i * 11) + (i * i) + 6) % 256], 1, KEY_BYTES)
Keys == {KeyOf(seed) : seed \in KeySeeds}

IVOf(seed, len) == SubSeq([i \in 1..len |-> ((seed * 101) + (i * 7)) % 256], 1, len)
IVs == {IVOf(seed, IV_BYTES) : seed \in IVSeeds}
Nonces == {IVOf(seed, NONCE_BYTES) : seed \in IVSeeds}

\* plaintexts; seed 0 is made of bytes 1, which read like padding
PlainOf(seed, len) ==
  SubSeq([i \in 1..len |-> IF seed = 0 THEN 1 ELSE ((seed * 53) + (i * 29)) % 256], 1, len)
PlainLens == {l \in 0..MaxPlainLen : l % BLOCK_BYTES \in {0, 1, BLOCK_BYTES - 1}}
Plaintexts == {PlainOf(seed, len) : seed \in PlainSeeds, len \in PlainLens}
Blocks == {PlainOf(seed, BLOCK_BYTES) : seed \in PlainSeeds}

NoResult == [status |-> "none", data |-> <<>>]
NoArg == [kind |-> "none", bytes |-> <<>>]
NoCall == [envelope |-> <<>>, key |-> <<>>, aad |-> <<>>, tamper |-> "none"]
NoGen == [sbox |-> <<>>, retry |-> 0, verified |-> FALSE]
NoPw == [mode |-> "none", salt |-> <<>>, encrypted |-> <<>>, kdfCalls |-> 0, decrypting |-> FALSE]

-----------------------------------------------------------------------------
(* Block scenario: encryptBlock, then decryptBlock from an identical state *)

InitBlock ==
  /\ pc = "block_new"
  /\ K \in Keys
  /\ iv \in IVs
  /\ P \in Blocks
  /\ blockNumber = 0
  /\ aad = <<>> /\ env = <<>> /\ out = NoResult
  /\ encRegs = <<>> /\ decRegs = <<>>
  /\ inst = NoInstance /\ arg = NoArg /\ tagState = "unchecked" /\ call = NoCall /\ pw = NoPw /\ buf = <<>> /\ gen = NoGen

\* both sides build their state: expandKey, createCipherState, mixIVIntoState
PrepareStates ==
  /\ pc = "block_new"
  /\ encRegs' = mixIVIntoState(createCipherState(expandKey(K)), iv)
  /\ decRegs' = mixIVIntoState(createCipherState(expandKey(K)), iv)
  /\ pc' = "block_start"
  /\ UNCHANGED <<K, iv, P, aad, env, out, inst, arg, blockNumber, tagState, call, pw, buf, gen>>

EncryptBlockCall ==
  /\ pc = "block_start"
  /\ \E e \in {encryptBlock(P, K, iv, blockNumber, encRegs, expandKey(K))} :
       /\ env' = e.C
       /\ encRegs' = e.R
  /\ pc' = "block_encrypted"
  /\ UNCHANGED <<K, iv, P, aad, out, decRegs, inst, arg, blockNumber, tagState, call, pw, buf, gen>>

DecryptBlockCall ==
  /\ pc = "block_encrypted"
  /\ \E d \in {decryptBlock(env, K, iv, blockNumber, decRegs, expandKey(K))} :
       /\ out' = Ok(d.P)
       /\ decRegs' = d.R
  /\ pc' = "block_decrypted"
  /\ UNCHANGED <<K, iv, P, aad, env, encRegs, inst, arg, blockNumber, tagState, call, pw, buf, gen>>

\* the next block of the same message, on the states the previous block left
NextBlockCall ==
  /\ pc = "block_decrypted"
  /\ blockNumber < MaxBlockNumber
  /\ P' \in Blocks
  /\ blockNumber' = blockNumber + 1
  /\ pc' = "block_start"
  /\ UNCHANGED <<K, iv, aad, env, out, encRegs, decRegs, inst, arg, tagState, call, pw, buf, gen>>

NextBlock == PrepareStates \/ EncryptBlockCall \/ DecryptBlockCall \/ NextBlockCall

SpecBlock == InitBlock /\ [][NextBlock]_vars

-----------------------------------------------------------------------------
(* CTR scenario: RandomUniverseCipher.encrypt, then decrypt                *)

InitCTR ==
  /\ pc = "ctr_start"
  /\ K \in Keys
  /\ iv \in Nonces
  /\ P \in Plaintexts
  /\ blockNumber = 0
  /\ aad = <<>> /\ env = <<>> /\ out = NoResult
  /\ encRegs = <<>> /\ decRegs = <<>>
  /\ inst = NoInstance /\ arg = NoArg /\ tagState = "unchecked" /\ call = NoCall /\ pw = NoPw /\ buf = <<>> /\ gen = NoGen

EncryptCTRCall ==
  /\ pc = "ctr_start"
  /\ env' = encryptCTR(P, K, iv)
  /\ pc' = "ctr_encrypted"
  /\ UNCHANGED <<K, iv, P, aad, out, encRegs, decRegs, inst, arg, blockNumber, tagState, call, pw, buf, gen>>

DecryptCTRCall ==
  /\ pc = "ctr_encrypted"
  /\ out' = decryptCTR(env, K)
  /\ pc' = "ctr_decrypted"
  /\ UNCHANGED <<K, iv, P, aad, env, encRegs, decRegs, inst, arg, blockNumber, tagState, call, pw, buf, gen>>

NextCTR == EncryptCTRCall \/ DecryptCTRCall

SpecCTR == InitCTR /\ [][NextCTR]_vars

-----------------------------------------------------------------------------
(* CBC scenario: encryptCBC, then decryptCBC; encRegs and decRegs record   *)
(* the registers after every block                                         *)

InitCBC ==
  /\ pc = "cbc_start"
  /\ K \in Keys
  /\ iv \in IVs
  /\ P \in Plaintexts
  /\ blockNumber = 0
  /\ aad = <<>> /\ env = <<>> /\ out = NoResult
  /\ encRegs = <<>> /\ decRegs = <<>>
  /\ inst = NoInstance /\ arg = NoArg /\ tagState = "unchecked" /\ call = NoCall /\ pw = NoPw /\ buf = <<>> /\ gen = NoGen

EncryptCBCCall ==
  /\ pc = "cbc_start"
  /\ \E e \in {encryptCBC(P, K, iv)} :
       /\ env' = e.envelope
       /\ encRegs' = e.states
  /\ pc' = "cbc_encrypted"
  /\ UNCHANGED <<K, iv, P, aad, out, decRegs, inst, arg, blockNumber, tagState, call, pw, buf, gen>>

DecryptCBCCall ==
  /\ pc = "cbc_encrypted"
  /\ \E d \in {decryptCBC(env, K)} :
       /\ out' = d.result
       /\ decRegs' = d.states
  /\ pc' = "cbc_decrypted"
  /\ UNCHANGED <<K, iv, P, aad, env, encRegs, inst, arg, blockNumber, tagState, call, pw, buf, gen>>

NextCBC == EncryptCBCCall \/ DecryptCBCCall

SpecCBC == InitCBC /\ [][NextCBC]_vars

-----------------------------------------------------------------------------
(* Scenario: new RandomUniverseCipher(key), then getKey()                  *)

MaxKeyLen == 66
KeyFills == {0, 1}
Passwords == {<<112, 119>>, <<>>}

CtorArgs ==
  {[kind |-> "bytes", bytes |-> SubSeq([i \in 1..len |-> (fill * (i + 3)) % 256], 1, len)] :
     fill \in KeyFills, len \in 0..MaxKeyLen}
  \cup {[kind |-> "string", bytes |-> word] : word \in Passwords}

InitCtor ==
  /\ pc = "ctor_new"
  /\ arg \in CtorArgs
  /\ inst = NoInstance /\ out = NoResult
  /\ K = <<>> /\ iv = <<>> /\ P = <<>> /\ aad = <<>> /\ env = <<>>
  /\ encRegs = <<>> /\ decRegs = <<>> /\ blockNumber = 0
  /\ tagState = "unchecked" /\ call = NoCall /\ pw = NoPw /\ buf = <<>> /\ gen = NoGen

Construct ==
  /\ pc = "ctor_new"
  /\ \E r \in {newCipher(arg)} :
       /\ inst' = r.instance
       /\ pc' = IF r.threw THEN "ctor_threw" ELSE "ctor_done"
       /\ out' = IF r.threw THEN Throw("InvalidKeyLength") ELSE out
  /\ UNCHANGED <<K, iv, P, aad, env, encRegs, decRegs, arg, blockNumber, tagState, call, pw, buf, gen>>

GetKey ==
  /\ pc = "ctor_done"
  /\ out' = Ok(getKey(inst))
  /\ pc' = "key_read"
  /\ UNCHANGED <<K, iv, P, aad, env, encRegs, decRegs, inst, arg, blockNumber, tagState, call, pw, buf, gen>>

NextCtor == Construct \/ GetKey

SpecCtor == InitCtor /\ [][NextCtor]_vars

-----------------------------------------------------------------------------
(* Scenario: aeadEncrypt, then aeadDecrypt of the envelope as sent or of an *)
(* altered call                                                            *)

AeadPlainLens == {0, 1, BLOCK_BYTES}
Aads == {<<>>, <<1>>}
FlipBits == {0, 7}

FlipBit(data, pos, bit) == [data EXCEPT ![pos] = Xor8(@, Pow2(bit))]

\* first and last byte of the nonce, of the ciphertext and of the tag
FlipPositions(envelope) ==
  {1, NONCE_BYTES, NONCE_BYTES + 1, Len(envelope) - TAG_BYTES,
   Len(envelope) - TAG_BYTES + 1, Len(envelope)}

\* other associated data: omitted, a trailing zero byte more, one byte more
OtherAads(a) == {<<>>, a \o <<0>>, a \o <<1>>} \ {a}

InitAEAD ==
  /\ pc = "aead_start"
  /\ K \in Keys
  /\ iv = IVOf(1, NONCE_BYTES)
  /\ P \in {PlainOf(1, len) : len \in AeadPlainLens}
  /\ aad \in Aads
  /\ blockNumber = 0
  /\ env = <<>> /\ out = NoResult
  /\ encRegs = <<>> /\ decRegs = <<>>
  /\ inst = NoInstance /\ arg = NoArg /\ tagState = "unchecked" /\ call = NoCall /\ pw = NoPw /\ buf = <<>> /\ gen = NoGen

AeadEncryptCall ==
  /\ pc = "aead_start"
  /\ env' = aeadEncrypt(P, K, iv, aad)
  /\ pc' = "aead_encrypted"
  /\ UNCHANGED <<K, iv, P, aad, out, encRegs, decRegs, inst, arg, blockNumber, tagState, call, pw, buf, gen>>

Hand(envelope, key, a, tamper) ==
  /\ pc = "aead_encrypted"
  /\ call' = [envelope |-> envelope, key |-> key, aad |-> a, tamper |-> tamper]
  /\ pc' = "aead_called"
  /\ UNCHANGED <<K, iv, P, aad, env, out, encRegs, decRegs, inst, arg, blockNumber, tagState, pw, buf, gen>>

PassEnvelope == Hand(env, K, aad, "none")

FlipEnvelopeBit ==
  \E pos \in FlipPositions(env), bit \in FlipBits : Hand(FlipBit(env, pos, bit), K, aad, "bit")

FlipAadBit ==
  \E pos \in 1..Len(aad), bit \in FlipBits : Hand(env, K, FlipBit(aad, pos, bit), "bit")

ChangeAad == \E a \in OtherAads(aad) : Hand(env, K, a, "aad")

WrongKey == \E key \in Keys \ {K} : Hand(env, key, aad, "key")

Truncate == Hand(SubSeq(env, 1, NONCE_BYTES + BLOCK_BYTES + TAG_BYTES - 1), K, aad, "truncated")

AeadCheckTag ==
  /\ pc = "aead_called"
  /\ tagState' = aeadCheck(call.envelope, call.key, call.aad)
  /\ pc' = "aead_checked"
  /\ UNCHANGED <<K, iv, P, aad, env, out, encRegs, decRegs, inst, arg, blockNumber, call, pw, buf, gen>>

AeadReturn ==
  /\ pc = "aead_checked"
  /\ out' = aeadOpen(call.envelope, call.key, tagState)
  /\ pc' = "aead_done"
  /\ UNCHANGED <<K, iv, P, aad, env, encRegs, decRegs, inst, arg, blockNumber, tagState, call, pw, buf, gen>>

NextAEAD ==
  \/ AeadEncryptCall
  \/ PassEnvelope \/ FlipEnvelopeBit \/ FlipAadBit \/ ChangeAad \/ WrongKey \/ Truncate
  \/ AeadCheckTag \/ AeadReturn

SpecAEAD == InitAEAD /\ [][NextAEAD]_vars

-----------------------------------------------------------------------------
(* Scenario: decryptWithPassword / decryptWithPasswordAEAD on an input of  *)
(* any length                                                              *)

MaxPwLen == 97
PwModes == {"ctr", "aead"}
Password == <<112, 97, 115, 115>>

InitPw ==
  /\ pc = "pw_call"
  /\ \E len \in 0..MaxPwLen : env = PlainOf(2, len)
  /\ \E mode \in PwModes : pw = [NoPw EXCEPT !.mode = mode]
  /\ P = Password
  /\ K = <<>> /\ iv = <<>> /\ aad = <<>> /\ out = NoResult
  /\ encRegs = <<>> /\ decRegs = <<>> /\ blockNumber = 0
  /\ inst = NoInstance /\ arg = NoArg /\ tagState = "unchecked" /\ call = NoCall /\ buf = <<>> /\ gen = NoGen

PwLengthCheck ==
  /\ pc = "pw_call"
  /\ IF pwTooShort(env, pw.mode)
     THEN out' = Throw("InvalidCiphertextLength") /\ pc' = "pw_too_short"
     ELSE out' = out /\ pc' = "pw_checked"
  /\ UNCHANGED <<K, iv, P, aad, env, encRegs, decRegs, inst, arg, blockNumber, tagState, call, pw, buf, gen>>

PwExtractSalt ==
  /\ pc = "pw_checked"
  /\ pw' = [pw EXCEPT !.salt = SubSeq(env, 1, SALT_SIZE),
                      !.encrypted = SubSeq(env, SALT_SIZE + 1, Len(env))]
  /\ pc' = "pw_salt"
  /\ UNCHANGED <<K, iv, P, aad, env, out, encRegs, decRegs, inst, arg, blockNumber, tagState, call, buf, gen>>

\* await RandomUniverseCipher.fromPasswordAsync(password, salt, level)
PwDeriveKey ==
  /\ pc = "pw_salt"
  /\ \E key \in {deriveKeyArgon2(P, pw.salt, 1)} :
       /\ K' = key
       /\ inst' = newCipher([kind |-> "bytes", bytes |-> key]).instance
  /\ pw' = [pw EXCEPT !.kdfCalls = @ + 1]
  /\ pc' = "pw_key"
  /\ UNCHANGED <<iv, P, aad, env, out, encRegs, decRegs, arg, blockNumber, tagState, call, buf, gen>>

PwDecrypt ==
  /\ pc = "pw_key"
  /\ out' = IF pw.mode = "aead" THEN aeadDecrypt(pw.encrypted, inst.key, aad)
            ELSE decryptCTR(pw.encrypted, inst.key)
  /\ pw' = [pw EXCEPT !.decrypting = TRUE]
  /\ pc' = "pw_done"
  /\ UNCHANGED <<K, iv, P, aad, env, encRegs, decRegs, inst, arg, blockNumber, tagState, call, buf, gen>>

NextPw == PwLengthCheck \/ PwExtractSalt \/ PwDeriveKey \/ PwDecrypt

SpecPw == InitPw /\ [][NextPw]_vars

-----------------------------------------------------------------------------
(* Scenario: encryptWithPasswordAEAD, then decryptWithPasswordAEAD of its  *)
(* output with the same password and associated data, at any level        *)

PwaPlainLens == {0, 5, 32, 33}
PwaLevels == {1, 2}
Salts == {IVOf(3, SALT_SIZE), IVOf(4, SALT_SIZE)}

InitPwa ==
  /\ pc = "pwa_start"
  /\ \E len \in PwaPlainLens : P = PlainOf(1, len)
  /\ aad \in {<<>>, <<1, 2, 3>>}
  /\ \E level \in PwaLevels :
       arg = [kind |-> "pwa", password |-> Password, level |-> level, decryptLevel |-> 0]
  /\ iv = IVOf(1, NONCE_BYTES)
  /\ K = <<>> /\ env = <<>> /\ out = NoResult
  /\ encRegs = <<>> /\ decRegs = <<>> /\ blockNumber = 0
  /\ inst = NoInstance /\ tagState = "unchecked" /\ call = NoCall /\ pw = NoPw
  /\ buf = <<>> /\ gen = NoGen

PwaEncrypt ==
  /\ pc = "pwa_start"
  /\ \E salt \in Salts :
       /\ env' = encryptWithPasswordAEAD(P, arg.password, aad, arg.level, salt, iv)
       /\ pw' = [pw EXCEPT !.mode = "aead", !.salt = salt]
  /\ pc' = "pwa_encrypted"
  /\ UNCHANGED <<K, iv, P, aad, out, encRegs, decRegs, inst, arg, blockNumber, tagState, call, buf, gen>>

PwaDecrypt ==
  /\ pc = "pwa_encrypted"
  /\ \E level \in PwaLevels :
       /\ arg' = [arg EXCEPT !.decryptLevel = level]
       /\ out' = decryptWithPasswordAEAD(env, arg.password, aad, level)
  /\ pw' = [pw EXCEPT !.decrypting = TRUE]
  /\ pc' = "pwa_done"
  /\ UNCHANGED <<K, iv, P, aad, env, encRegs, decRegs, inst, blockNumber, tagState, call, buf, gen>>

NextPwa == PwaEncrypt \/ PwaDecrypt

SpecPwa == InitPwa /\ [][NextPwa]_vars

-----------------------------------------------------------------------------
(* Scenario: step 3b of encrypt_block on seven given registers             *)

\* register j filled with the byte v, the others with v + j + their index
MixRegisters(j, v) ==
  SubSeq([k \in 1..REGISTER_COUNT |->
            Repeat(IF k = j THEN v ELSE (v + (16 * j) + k) % 256, REGISTER_BYTES)],
         1, REGISTER_COUNT)

InitMix ==
  /\ pc = "mix_start"
  /\ \/ \E j \in 1..REGISTER_COUNT, v \in 1..8 : arg = [kind |-> "given", R |-> MixRegisters(j, v)]
     \/ \E key \in Keys : arg = [kind |-> "key", R |-> expandKey(key).registers]
  /\ K = <<>> /\ iv = <<>> /\ P = <<>> /\ aad = <<>> /\ env = <<>>
  /\ out = NoResult /\ encRegs = <<>> /\ decRegs = <<>> /\ inst = NoInstance
  /\ blockNumber = 0 /\ tagState = "none"
  /\ call = NoCall /\ pw = NoPw /\ buf = <<>> /\ gen = NoGen

InterRoundMix ==
  /\ pc = "mix_start"
  /\ out' = Ok(interRoundMix(arg.R, 0))
  /\ pc' = "mix_done"
  /\ UNCHANGED <<K, iv, P, aad, env, encRegs, decRegs, inst, arg, blockNumber, tagState, call, pw, buf, gen>>

NextMix == InterRoundMix

SpecMix == InitMix /\ [][NextMix]_vars

-----------------------------------------------------------------------------
(* Scenario: mix_iv_into_state and encrypt_block of block 0, one step at a *)
(* time; gen is [R, ACC], buf keeps what the last step added and shifted   *)

NoStep == [result |-> 0, accBefore |-> 0, shifted |-> 0, discarded |-> <<>>]

InitSteps ==
  /\ pc = "st_start"
  /\ K \in Keys
  /\ iv = IVOf(1, IV_BYTES)
  /\ P \in {PlainOf(seed, BLOCK_BYTES) : seed \in {1, 2}}
  /\ aad = <<>> /\ env = <<>> /\ out = NoResult
  /\ encRegs = <<>> /\ decRegs = <<>> /\ inst = NoInstance /\ arg = NoArg
  /\ blockNumber = 0 /\ tagState = "none"
  /\ call = NoCall /\ pw = NoPw /\ buf = NoStep /\ gen = NoGen

\* keyMaterial = expandKey(key); state = createCipherState(keyMaterial)
StepCreate ==
  /\ pc = "st_start"
  /\ \E keyMaterial \in {expandKey(K)} :
       /\ arg' = [kind |-> "steps", keyMaterial |-> keyMaterial, block |-> <<>>,
                  r |-> 0, j |-> 1, passes |-> 0]
       /\ gen' = [R |-> createCipherState(keyMaterial), ACC |-> 0]
  /\ pc' = "st_rotate"
  /\ UNCHANGED <<K, iv, P, aad, env, out, encRegs, decRegs, inst, blockNumber, tagState, call, pw, buf>>

\* mix_iv_into_state steps 1-2
StepMixRotate ==
  /\ pc = "st_rotate"
  /\ gen' = [gen EXCEPT !.R = mixIVRotate(gen.R, shake256(iv \o DS_IV_EXPAND, REGISTER_BYTES))]
  /\ pc' = "st_cross"
  /\ UNCHANGED <<K, iv, P, aad, env, out, encRegs, decRegs, inst, arg, blockNumber, tagState, call, pw, buf>>

\* mix_iv_into_state step 3, one of the three rounds
StepMixCross ==
  /\ pc = "st_cross" /\ arg.passes < 3
  /\ gen' = [gen EXCEPT !.R = mixIVCross(gen.R, 0)]
  /\ arg' = [arg EXCEPT !.passes = @ + 1]
  /\ UNCHANGED <<pc, K, iv, P, aad, env, out, encRegs, decRegs, inst, blockNumber, tagState, call, pw, buf>>

\* encrypt_block steps 1-2: the ordered selectors, ACC = 0; encRegs keeps the
\* registers the block starts from
StepOrder ==
  /\ pc = "st_cross" /\ arg.passes = 3
  /\ \E ordered \in {orderedSelectors(K, iv, blockNumber, arg.keyMaterial.selectors)} :
       arg' = [arg EXCEPT !.block =
                 [ordered |-> ordered,
                  consts |-> SubSeq([j \in 1..Len(ordered) |-> keyConst(K, ordered[j])],
                                    1, Len(ordered))]]
  /\ gen' = [gen EXCEPT !.ACC = 0]
  /\ encRegs' = gen.R
  /\ pc' = "st_round"
  /\ UNCHANGED <<K, iv, P, aad, env, out, decRegs, inst, blockNumber, tagState, call, pw, buf>>

\* encrypt_block step 3a for the next selector of the round
StepSelector ==
  /\ pc = "st_round" /\ arg.r < RoundsBound /\ arg.j <= Len(arg.block.ordered)
  /\ \E sel \in {arg.block.ordered[arg.j]}, sbox \in {arg.keyMaterial.sboxes[arg.r + 1]},
        RKr \in {arg.keyMaterial.roundKeys[arg.r + 1]} :
       \E place_idx \in {placeIdx(gen.R[1], sel, RKr)} :
         \E result \in {selectorResult(sel, gen.R[place_idx + 1][1], arg.block.consts[arg.j], sbox)} :
           /\ gen' = selectorStep(gen, sel, arg.block.consts[arg.j], sbox, RKr)
           /\ buf' = [result |-> result, accBefore |-> gen.ACC,
                      shifted |-> result * Pow2(sel % 16), discarded |-> <<>>]
  /\ arg' = [arg EXCEPT !.j = @ + 1]
  /\ UNCHANGED <<pc, K, iv, P, aad, env, out, encRegs, decRegs, inst, blockNumber, tagState, call, pw>>

\* encrypt_block step 3b, then the next round
StepInterRound ==
  /\ pc = "st_round" /\ arg.r < RoundsBound /\ arg.j > Len(arg.block.ordered)
  /\ gen' = [gen EXCEPT !.R = interRoundMix(gen.R, 0)]
  /\ arg' = [arg EXCEPT !.r = @ + 1, !.j = 1]
  /\ UNCHANGED <<pc, K, iv, P, aad, env, out, encRegs, decRegs, inst, blockNumber, tagState, call, pw, buf>>

\* encrypt_block steps 4-6: keystream, ciphertext, feedback; out keeps what
\* encryptBlock returns for the same block
StepEmit ==
  /\ pc = "st_round" /\ arg.r = RoundsBound
  /\ \E keystream \in {shake256(intToBytes(gen.ACC, 128) \o gen.R[1] \o gen.R[2] \o gen.R[3]
                                  \o gen.R[4] \o gen.R[5] \o gen.R[6] \o gen.R[7]
                                  \o DS_KEYSTREAM \o intToBytes(blockNumber, 8), BLOCK_BYTES)} :
       \E C \in {XorBytes(P, keystream)} :
         /\ env' = C
         /\ gen' = [gen EXCEPT !.R = ciphertextFeedback(gen.R, C)]
         /\ buf' = [buf EXCEPT !.discarded =
                      SubSeq([i \in 1..REGISTER_COUNT |->
                                SubSeq(ShlWide(ToRegister(C), feedbackShift(i - 1)),
                                       1, REGISTER_BYTES)], 1, REGISTER_COUNT)]
  /\ out' = Ok(encryptBlock(P, K, iv, blockNumber, encRegs, arg.keyMaterial))
  /\ pc' = "st_done"
  /\ UNCHANGED <<K, iv, P, aad, encRegs, decRegs, inst, arg, blockNumber, tagState, call, pw>>

NextSteps ==
  \/ StepCreate \/ StepMixRotate \/ StepMixCross \/ StepOrder
  \/ StepSelector \/ StepInterRound \/ StepEmit

SpecSteps == InitSteps /\ [][NextSteps]_vars

-----------------------------------------------------------------------------
(* Scenario: RUC_CTR_Encrypt of a plaintext and of the same plaintext with *)
(* one bit flipped, same key and nonce                                     *)

FlipBytes == {1, 2, 16, 32, 33, 40}
PlainFlipBits == {0, 7}

\* data with bit `bit` of byte `at` flipped
flipBit(data, at, bit) == [data EXCEPT ![at] = Xor8(@, Pow2(bit))]

InitFlip ==
  /\ pc = "flip_start"
  /\ K \in Keys
  /\ iv = IVOf(1, NONCE_BYTES)
  /\ P \in {PlainOf(1, 40), PlainOf(2, 64)}
  /\ \E at \in FlipBytes, bit \in PlainFlipBits : arg = [kind |-> "flip", at |-> at, bit |-> bit]
  /\ aad = <<>> /\ env = <<>> /\ out = NoResult
  /\ encRegs = <<>> /\ decRegs = <<>> /\ inst = NoInstance
  /\ blockNumber = 0 /\ tagState = "none"
  /\ call = NoCall /\ pw = NoPw /\ buf = <<>> /\ gen = NoGen

FlipEncrypt ==
  /\ pc = "flip_start"
  /\ env' = encryptCTR(P, K, iv)
  /\ pc' = "flip_first"
  /\ UNCHANGED <<K, iv, P, aad, out, encRegs, decRegs, inst, arg, blockNumber, tagState, call, pw, buf, gen>>

FlipEncryptFlipped ==
  /\ pc = "flip_first"
  /\ out' = Ok(encryptCTR(flipBit(P, arg.at, arg.bit), K, iv))
  /\ pc' = "flip_done"
  /\ UNCHANGED <<K, iv, P, aad, env, encRegs, decRegs, inst, arg, blockNumber, tagState, call, pw, buf, gen>>

NextFlip == FlipEncrypt \/ FlipEncryptFlipped

SpecFlip == InitFlip /\ [][NextFlip]_vars

-----------------------------------------------------------------------------
(* Scenario: a ChaCha20 reader serving a sequence of NextBytes requests    *)

MaxStream == 200
ReadCounts == {0, 1, 63, 64, 65, 130}

InitReader ==
  /\ pc = "reader"
  /\ K \in {shake256(KeyOf(seed) \o DS_PERMUTE, 32) : seed \in {1, 2}}
  /\ iv = Zeros(12)
  /\ gen = [kind |-> "prng", st |-> ChaCha20_Init(K, iv)]
  /\ buf = <<>>
  /\ arg = [kind |-> "read", before |-> 0, count |-> 0]
  /\ P = <<>> /\ aad = <<>> /\ env = <<>> /\ out = NoResult
  /\ encRegs = <<>> /\ decRegs = <<>> /\ inst = NoInstance
  /\ blockNumber = 0 /\ tagState = "none"
  /\ call = NoCall /\ pw = NoPw

\* one ChaCha20_NextBytes(state, count); the reader keeps the state, the
\* caller appends what it was given to buf
ReaderNextBytes(count) ==
  /\ pc = "reader"
  /\ Len(buf) + count <= MaxStream
  /\ \E nb \in {ChaCha20_NextBytes(gen.st, count)} :
       /\ gen' = [gen EXCEPT !.st = nb.state]
       /\ out' = Ok(nb.bytes)
       /\ buf' = buf \o nb.bytes
  /\ arg' = [arg EXCEPT !.before = Len(buf), !.count = count]
  /\ UNCHANGED <<pc, K, iv, P, aad, env, encRegs, decRegs, inst, blockNumber, tagState, call, pw>>

NextReader == \E count \in ReadCounts : ReaderNextBytes(count)

SpecReader == InitReader /\ [][NextReader]_vars

-----------------------------------------------------------------------------
(* Scenario: the crypto worker.  Its onmessage handler is an async         *)
(* function: it runs from the delivery of a message to its await, and from *)
(* the settling of the awaited promise to its end; handlers of other       *)
(* messages may run in between.                                            *)

MaxRequests == 3
RequestIds == 1..MaxRequests
WorkerTypes == {"encrypt", "decrypt", "other"}

\* what the request carries: data the cipher accepts, data whose tag does not
\* verify, data shorter than salt + nonce + block + tag
RequestData(type) == IF type = "decrypt" THEN {"sound", "tampered", "short"} ELSE {"sound"}

postProgress(id, progress) == [type |-> "progress", id |-> id, progress |-> progress]

postTerminal(type, id) == [type |-> type, id |-> id, progress |-> 0]

\* the handler up to its await
onmessageStart(type, id) ==
  <<postProgress(id, 20)>> \o
  (IF type \in {"encrypt", "decrypt"} THEN <<postProgress(id, 50)>> ELSE <<>>)

\* a handler whose error message is posted whether or not the try block threw
onmessageSettledFinally(type, id, settled) ==
  IF settled = "fulfilled"
  THEN <<postProgress(id, 100), postTerminal("success", id), postTerminal("error", id)>>
  ELSE <<postTerminal("error", id)>>

\* the handler after its await: the rest of the try block, or the catch block
onmessageSettled(type, id, settled) ==
  IF settled = "fulfilled"
  THEN <<postProgress(id, 100), postTerminal("success", id)>>
  ELSE <<postTerminal("error", id)>>

\* how the promise of encryptWithPasswordAEAD / decryptWithPasswordAEAD may settle
Settlements(type, data) ==
  IF type = "decrypt" /\ data # "sound" THEN {"rejected"} ELSE {"fulfilled", "rejected"}

InitWorker ==
  /\ pc = "worker"
  /\ arg = [kind |-> "worker", inbox |-> <<>>, sent |-> 0]
  /\ gen = [id \in RequestIds |-> [pc |-> "unsent", type |-> "other", data |-> "sound"]]
  /\ buf = <<>>
  /\ K = <<>> /\ iv = <<>> /\ P = <<>> /\ aad = <<>> /\ env = <<>> /\ out = NoResult
  /\ encRegs = <<>> /\ decRegs = <<>> /\ inst = NoInstance
  /\ blockNumber = 0 /\ tagState = "none"
  /\ call = NoCall /\ pw = NoPw

\* the main thread posts a request; ids are issued once each
MainPostMessage(type, data) ==
  /\ pc = "worker"
  /\ arg.sent < MaxRequests
  /\ arg' = [arg EXCEPT !.sent = @ + 1, !.inbox = Append(@, arg.sent + 1)]
  /\ gen' = [gen EXCEPT ![arg.sent + 1] = [pc |-> "queued", type |-> type, data |-> data]]
  /\ UNCHANGED <<pc, K, iv, P, aad, env, out, encRegs, decRegs, inst, blockNumber, tagState, call, pw, buf>>

\* self.onmessage up to the await.  A message of another type falls through
\* both branches; a decrypt request that is too short throws before anything
\* is awaited inside decryptWithPasswordAEAD, and the catch block runs before
\* the next message is delivered.
WorkerOnMessage ==
  /\ pc = "worker"
  /\ arg.inbox # <<>>
  /\ \E id \in {Head(arg.inbox)} :
       /\ arg' = [arg EXCEPT !.inbox = Tail(@)]
       /\ IF gen[id].type = "other"
          THEN /\ buf' = buf \o onmessageStart(gen[id].type, id)
               /\ gen' = [gen EXCEPT ![id].pc = "returned"]
          ELSE IF gen[id].type = "decrypt" /\ gen[id].data = "short"
          THEN /\ buf' = buf \o onmessageStart(gen[id].type, id)
                              \o onmessageSettled(gen[id].type, id, "rejected")
               /\ gen' = [gen EXCEPT ![id].pc = "returned"]
          ELSE /\ buf' = buf \o onmessageStart(gen[id].type, id)
               /\ gen' = [gen EXCEPT ![id].pc = "awaiting"]
  /\ UNCHANGED <<pc, K, iv, P, aad, env, out, encRegs, decRegs, inst, blockNumber, tagState, call, pw>>

\* the awaited promise of request id settles and its handler runs to the end
WorkerResume(id) ==
  /\ pc = "worker"
  /\ gen[id].pc = "awaiting"
  /\ \E settled \in Settlements(gen[id].type, gen[id].data) :
       buf' = buf \o onmessageSettled(gen[id].type, id, settled)
  /\ gen' = [gen EXCEPT ![id].pc = "returned"]
  /\ UNCHANGED <<pc, K, iv, P, aad, env, out, encRegs, decRegs, inst, arg, blockNumber, tagState, call, pw>>

NextWorker ==
  \/ \E type \in WorkerTypes : \E data \in RequestData(type) : MainPostMessage(type, data)
  \/ WorkerOnMessage
  \/ \E id \in RequestIds : WorkerResume(id)

SpecWorker == InitWorker /\ [][NextWorker]_vars

\* the event loop delivers every queued message and every awaited key
\* derivation settles
SpecWorkerFair ==
  /\ SpecWorker
  /\ WF_vars(WorkerOnMessage)
  /\ \A id \in RequestIds : WF_vars(WorkerResume(id))

-----------------------------------------------------------------------------
(* Scenario: the file panel of the demo page and its crypto worker.  A     *)
(* click handler is an async function and is taken from await to await;    *)
(* the page's other event handlers run in between.                         *)

MaxClicks == 2
Handlers == 1..MaxClicks
FileIds == {1, 2}

NoHandler == [type |-> "none", pc |-> "unstarted", settledBy |-> 0]

\* the finally block of handleEncryptFile / handleDecryptFile
enableButtons(ui) == [ui EXCEPT !.disabled = FALSE]

InitUI ==
  /\ pc = "ui"
  /\ arg = [kind |-> "ui", currentFile |-> 0, disabled |-> TRUE, dropZone |-> TRUE,
            pendingOperation |-> 0, overwritten |-> FALSE, started |-> 0,
            fileOutput |-> "none"]
  /\ gen = [h \in Handlers |-> NoHandler]
  /\ buf = <<>>
  /\ env = <<>>
  /\ K = <<>> /\ iv = <<>> /\ P = <<>> /\ aad = <<>> /\ out = NoResult
  /\ encRegs = <<>> /\ decRegs = <<>> /\ inst = NoInstance
  /\ blockNumber = 0 /\ tagState = "none"
  /\ call = NoCall /\ pw = NoPw

\* handleDrop / handleFileSelect -> selectFile; both start at the drop zone,
\* which selectFile hides
selectFile(file) ==
  /\ pc = "ui"
  /\ arg.dropZone
  /\ arg' = [arg EXCEPT !.currentFile = file, !.dropZone = FALSE, !.disabled = FALSE,
                         !.fileOutput = "none"]
  /\ UNCHANGED <<K, iv, P, aad, env, out, encRegs, decRegs, inst, blockNumber, tagState, call, pw, buf, gen, pc>>

\* the clear button sits in the file info box, shown while a file is selected
clearFile ==
  /\ pc = "ui"
  /\ ~arg.dropZone
  /\ arg' = [arg EXCEPT !.currentFile = 0, !.dropZone = TRUE, !.disabled = TRUE,
                         !.fileOutput = "none"]
  /\ UNCHANGED <<K, iv, P, aad, env, out, encRegs, decRegs, inst, blockNumber, tagState, call, pw, buf, gen, pc>>

\* handleEncryptFile / handleDecryptFile up to `await yieldToMain()`; a
\* disabled button sends no click
handleFileClick(type, password) ==
  /\ pc = "ui"
  /\ ~arg.disabled
  /\ arg.started < MaxClicks
  /\ IF arg.currentFile = 0
     THEN UNCHANGED <<arg, gen>>
     ELSE IF password = ""
     THEN /\ arg' = [arg EXCEPT !.fileOutput = "Please enter a password first"]
          /\ UNCHANGED gen
     ELSE /\ arg' = [arg EXCEPT !.disabled = TRUE, !.started = @ + 1]
          /\ gen' = [gen EXCEPT ![arg.started + 1] = [NoHandler EXCEPT !.type = type, !.pc = "yield"]]
  /\ UNCHANGED <<K, iv, P, aad, env, out, encRegs, decRegs, inst, blockNumber, tagState, call, pw, buf, pc>>

\* the handler after yieldToMain: currentFile.arrayBuffer(), a TypeError
\* (catch, finally) when the file was cleared meanwhile
resumeAfterYield(h) ==
  /\ pc = "ui"
  /\ gen[h].pc = "yield"
  /\ IF arg.currentFile = 0
     THEN /\ gen' = [gen EXCEPT ![h].pc = "failed"]
          /\ arg' = enableButtons([arg EXCEPT !.fileOutput = "failed"])
     ELSE /\ gen' = [gen EXCEPT ![h].pc = "reading"]
          /\ UNCHANGED arg
  /\ UNCHANGED <<K, iv, P, aad, env, out, encRegs, decRegs, inst, blockNumber, tagState, call, pw, buf, pc>>

\* the handler after the file was read, up to processWithWorker: the
\* promise's resolve / reject go to pendingOperation and the request to the
\* worker.  handleEncryptFile reads currentFile.name first.
processWithWorker(h) ==
  /\ pc = "ui"
  /\ gen[h].pc = "reading"
  /\ IF gen[h].type = "encrypt" /\ arg.currentFile = 0
     THEN /\ gen' = [gen EXCEPT ![h].pc = "failed"]
          /\ arg' = enableButtons([arg EXCEPT !.fileOutput = "failed"])
          /\ UNCHANGED buf
     ELSE /\ gen' = [gen EXCEPT ![h].pc = "waiting"]
          /\ arg' = [arg EXCEPT !.pendingOperation = h,
                                 !.overwritten = @ \/ (arg.pendingOperation # 0)]
          /\ buf' = Append(buf, h)
  /\ UNCHANGED <<K, iv, P, aad, env, out, encRegs, decRegs, inst, blockNumber, tagState, call, pw, pc>>

\* the worker ends one of the requests it holds with its terminal message
workerRespond(k, type) ==
  /\ pc = "ui"
  /\ k \in 1..Len(buf)
  /\ env' = Append(env, postTerminal(type, buf[k]))
  /\ buf' = SubSeq(buf, 1, k - 1) \o SubSeq(buf, k + 1, Len(buf))
  /\ UNCHANGED <<K, iv, P, aad, out, encRegs, decRegs, inst, arg, blockNumber, tagState, call, pw, gen, pc>>

\* cryptoWorker.onmessage for a success or error message, and the handler
\* whose promise it settles up to its next await or its end
cryptoWorkerOnMessage ==
  /\ pc = "ui"
  /\ env # <<>>
  /\ env' = Tail(env)
  /\ IF arg.pendingOperation = 0
     THEN UNCHANGED <<arg, gen>>
     ELSE \E h \in {arg.pendingOperation} :
            IF Head(env).type = "success" /\ gen[h].type = "decrypt"
            THEN /\ gen' = [gen EXCEPT ![h].pc = "extract", ![h].settledBy = Head(env).id]
                 /\ arg' = [arg EXCEPT !.pendingOperation = 0]
            ELSE /\ gen' = [gen EXCEPT ![h].settledBy = Head(env).id,
                                        ![h].pc = IF Head(env).type = "success" /\ arg.currentFile # 0
                                                  THEN "done" ELSE "failed"]
                 /\ arg' = enableButtons([arg EXCEPT !.pendingOperation = 0,
                                                      !.fileOutput = "shown"])
  /\ UNCHANGED <<K, iv, P, aad, out, encRegs, decRegs, inst, blockNumber, tagState, call, pw, buf, pc>>

\* handleDecryptFile after its second yieldToMain, to the end
resumeExtract(h) ==
  /\ pc = "ui"
  /\ gen[h].pc = "extract"
  /\ gen' = [gen EXCEPT ![h].pc = "done"]
  /\ arg' = enableButtons([arg EXCEPT !.fileOutput = "shown"])
  /\ UNCHANGED <<K, iv, P, aad, env, out, encRegs, decRegs, inst, blockNumber, tagState, call, pw, buf, pc>>

NextUI ==
  \/ \E file \in FileIds : selectFile(file)
  \/ clearFile
  \/ \E type \in {"encrypt", "decrypt"}, password \in {"", "pw"} : handleFileClick(type, password)
  \/ \E h \in Handlers : resumeAfterYield(h)
  \/ \E h \in Handlers : processWithWorker(h)
  \/ \E k \in Handlers, type \in {"success", "error"} : workerRespond(k, type)
  \/ cryptoWorkerOnMessage
  \/ \E h \in Handlers : resumeExtract(h)

SpecUI == InitUI /\ [][NextUI]_vars

-----------------------------------------------------------------------------
(* Scenario: readFileInChunks over a file, taken from await to await       *)

MaxFileSize == 7
MaxChunkSize == 4

\* Blob.slice with an end one byte too far
sliceInclusive(file, start, end) == SubSeq(file, start + 1, Min(end + 1, Len(file)))

\* Blob.slice(start, end): the end is clamped to the size
slice(file, start, end) == SubSeq(file, start + 1, Min(end, Len(file)))

\* Math.floor((offset / totalSize) * 100)
progressOf(offset, totalSize) == (offset * 100) \div totalSize

\* the loop test and, when it passes, the slice and the call of arrayBuffer
chunkLoopTest(locals, file, chunkSize) ==
  IF locals.offset < Len(file)
  THEN [locals EXCEPT !.at = "arrayBuffer",
                      !.chunk = slice(file, locals.offset, locals.offset + chunkSize)]
  ELSE [locals EXCEPT !.at = "returned", !.chunk = <<>>]

InitChunks ==
  /\ pc = "chunks"
  /\ \E size \in 0..MaxFileSize : P = PlainOf(3, size)
  /\ \E chunkSize \in 1..MaxChunkSize, onProgress \in BOOLEAN :
       arg = [kind |-> "chunks", chunkSize |-> chunkSize, onProgress |-> onProgress]
  /\ gen = [at |-> "uncalled", offset |-> 0, chunk |-> <<>>, running |-> 0]
  /\ buf = <<>>
  /\ env = <<>>
  /\ K = <<>> /\ iv = <<>> /\ aad = <<>> /\ out = NoResult
  /\ encRegs = <<>> /\ decRegs = <<>> /\ inst = NoInstance
  /\ blockNumber = 0 /\ tagState = "none"
  /\ call = NoCall /\ pw = NoPw

\* the call, up to the first await
readFileInChunks ==
  /\ pc = "chunks"
  /\ gen.at = "uncalled"
  /\ gen' = chunkLoopTest(gen, P, arg.chunkSize)
  /\ UNCHANGED <<pc, K, iv, P, aad, env, out, encRegs, decRegs, inst, arg, blockNumber, tagState, call, pw, buf>>

\* chunk.arrayBuffer() has resolved: onChunk(chunkData, offset, totalSize)
\* is called and awaited
chunkOnChunk ==
  /\ pc = "chunks"
  /\ gen.at = "arrayBuffer"
  /\ buf' = Append(buf, [chunk |-> gen.chunk, offset |-> gen.offset, totalSize |-> Len(P),
                          running |-> gen.running])
  /\ gen' = [gen EXCEPT !.at = "onChunk", !.running = @ + 1]
  /\ UNCHANGED <<pc, K, iv, P, aad, env, out, encRegs, decRegs, inst, arg, blockNumber, tagState, call, pw>>

\* onChunk has completed: the offset moves on, progress is reported, and the
\* loop goes round to its next await or ends
chunkAdvance ==
  /\ pc = "chunks"
  /\ gen.at = "onChunk"
  /\ \E offset \in {gen.offset + Len(gen.chunk)} :
       /\ env' = IF arg.onProgress THEN Append(env, progressOf(offset, Len(P))) ELSE env
       /\ gen' = chunkLoopTest([gen EXCEPT !.offset = offset, !.running = @ - 1],
                               P, arg.chunkSize)
  /\ UNCHANGED <<pc, K, iv, P, aad, out, encRegs, decRegs, inst, arg, blockNumber, tagState, call, pw, buf>>

NextChunks == readFileInChunks \/ chunkOnChunk \/ chunkAdvance

SpecChunks == InitChunks /\ [][NextChunks]_vars

\* every awaited promise (arrayBuffer, onChunk) settles
SpecChunksFair == SpecChunks /\ WF_vars(NextChunks)

-----------------------------------------------------------------------------
(* Scenario: a RandomUniverseCipher instance and the byte arrays its       *)
(* caller holds.  Arrays are objects: gen.arrays[ref] is the content of    *)
(* the array ref, and the instance and the caller hold references.         *)

MaxGetKey == 1

\* no copy: the reference kept is the one given
sameUint8Array(heap, src) == [heap |-> heap, ref |-> src]

\* new Uint8Array(typedArray): a new array with the elements of src
newUint8Array(heap, src) ==
  [heap |-> [heap EXCEPT !.arrays = Append(@, heap.arrays[src])],
   ref |-> Len(heap.arrays) + 1]

\* this.key, as the cipher functions read it
instanceKey == gen.arrays[inst.key]

InitKey ==
  /\ pc = "key_new"
  /\ K \in Keys
  /\ iv = IVOf(1, NONCE_BYTES)
  /\ P \in {PlainOf(1, 5), PlainOf(2, 31)}
  /\ aad = <<1>>
  /\ gen = [arrays |-> <<K>>]
  /\ arg = [kind |-> "caller", passed |-> 1, held |-> <<>>]
  /\ inst = [created |-> FALSE, key |-> 0]
  /\ env = encryptCTR(P, K, iv)
  /\ buf = aeadEncrypt(P, K, iv, aad)
  /\ out = NoResult
  /\ encRegs = <<>> /\ decRegs = <<>>
  /\ blockNumber = 0 /\ tagState = "none"
  /\ call = NoCall /\ pw = NoPw

\* new RandomUniverseCipher(key) with the caller's 64-byte array
KeyConstruct ==
  /\ pc = "key_new"
  /\ ~newCipher([kind |-> "bytes", bytes |-> gen.arrays[arg.passed]]).threw
  /\ \E c \in {newUint8Array(gen, arg.passed)} :
       /\ gen' = c.heap
       /\ inst' = [created |-> TRUE, key |-> c.ref]
  /\ pc' = "key_ready"
  /\ UNCHANGED <<K, iv, P, aad, env, out, encRegs, decRegs, arg, blockNumber, tagState, call, pw, buf>>

\* getKey(): the caller is handed a new array
KeyGetKey ==
  /\ inst.created
  /\ Len(arg.held) < MaxGetKey
  /\ \E c \in {newUint8Array(gen, inst.key)} :
       /\ gen' = c.heap
       /\ arg' = [arg EXCEPT !.held = Append(@, c.ref)]
       /\ out' = Ok(c.heap.arrays[c.ref])
  /\ pc' = "key_getKey"
  /\ UNCHANGED <<K, iv, P, aad, env, encRegs, decRegs, inst, blockNumber, tagState, call, pw, buf>>

\* the caller writes into an array it holds: the one it passed to the
\* constructor, or one returned by getKey
CallerWrite(ref) ==
  /\ inst.created
  /\ ref = arg.passed \/ \E k \in 1..Len(arg.held) : arg.held[k] = ref
  /\ gen' = [gen EXCEPT !.arrays[ref][1] = Xor8(@, 255)]
  /\ UNCHANGED <<pc, K, iv, P, aad, env, out, encRegs, decRegs, inst, arg, blockNumber, tagState, call, pw, buf>>

KeyEncrypt ==
  /\ inst.created
  /\ out' = Ok(encryptCTR(P, instanceKey, iv))
  /\ pc' = "key_encrypt"
  /\ UNCHANGED <<K, iv, P, aad, env, encRegs, decRegs, inst, arg, blockNumber, tagState, call, pw, buf, gen>>

KeyDecrypt ==
  /\ inst.created
  /\ out' = decryptCTR(env, instanceKey)
  /\ pc' = "key_decrypt"
  /\ UNCHANGED <<K, iv, P, aad, env, encRegs, decRegs, inst, arg, blockNumber, tagState, call, pw, buf, gen>>

KeyEncryptAuthenticated ==
  /\ inst.created
  /\ out' = Ok(aeadEncrypt(P, instanceKey, iv, aad))
  /\ pc' = "key_encryptAuthenticated"
  /\ UNCHANGED <<K, iv, P, aad, env, encRegs, decRegs, inst, arg, blockNumber, tagState, call, pw, buf, gen>>

KeyDecryptAuthenticated ==
  /\ inst.created
  /\ out' = aeadDecrypt(buf, instanceKey, aad)
  /\ pc' = "key_decryptAuthenticated"
  /\ UNCHANGED <<K, iv, P, aad, env, encRegs, decRegs, inst, arg, blockNumber, tagState, call, pw, buf, gen>>

NextKey ==
  \/ KeyConstruct
  \/ KeyGetKey
  \/ \E ref \in 1..(MaxGetKey + 2) : CallerWrite(ref)
  \/ KeyEncrypt
  \/ KeyDecrypt
  \/ KeyEncryptAuthenticated
  \/ KeyDecryptAuthenticated

SpecKey == InitKey /\ [][NextKey]_vars

-----------------------------------------------------------------------------
(* Scenario: decryptCTR / decryptCBC of an envelope as sent, under another  *)
(* key, or with the last ciphertext block rewritten                        *)

\* plaintexts of 1 and 2 padded blocks; byte 32 is 33
PadPlainLens == {5, 32, 40}
PadPlainOf(len) ==
  SubSeq([i \in 1..len |-> IF i = BLOCK_BYTES THEN 33 ELSE ((i * 7) + 1) % 256], 1, len)

\* a final block: fill, then k bytes of value b
FinalBlock(b, k, fill) ==
  SubSeq([i \in 1..BLOCK_BYTES |-> IF i > BLOCK_BYTES - k THEN b ELSE fill], 1, BLOCK_BYTES)

FinalBlocks ==
  {FinalBlock(33, 32, 0), FinalBlock(32, 32, 0), FinalBlock(0, 1, 7), FinalBlock(200, 1, 7),
   FinalBlock(5, 5, 7), FinalBlock(5, 2, 7), FinalBlock(1, 1, 7)}

\* the envelope whose last block decrypts to target instead of the last block
\* of padded: the last keystream block does not depend on the last
\* ciphertext block
rewriteLastBlock(envelope, padded, target) ==
  SubSeq(envelope, 1, Len(envelope) - BLOCK_BYTES)
    \o XorBytes(SubSeq(envelope, Len(envelope) - BLOCK_BYTES + 1, Len(envelope)),
                XorBytes(SubSeq(padded, Len(padded) - BLOCK_BYTES + 1, Len(padded)), target))

InitPad ==
  /\ pc = "pad_start"
  /\ K = KeyOf(1)
  /\ iv \in {IVOf(1, NONCE_BYTES), IVOf(1, IV_BYTES)}
  /\ P \in {PadPlainOf(len) : len \in PadPlainLens}
  /\ blockNumber = 0
  /\ aad = <<>> /\ env = <<>> /\ out = NoResult
  /\ encRegs = <<>> /\ decRegs = <<>>
  /\ inst = NoInstance /\ arg = NoArg /\ tagState = "unchecked" /\ call = NoCall /\ pw = NoPw /\ buf = <<>> /\ gen = NoGen

\* encryptCTR when a nonce was drawn, encryptCBC when an IV was drawn
PadEncrypt ==
  /\ pc = "pad_start"
  /\ env' = IF Len(iv) = NONCE_BYTES THEN encryptCTR(P, K, iv) ELSE encryptCBC(P, K, iv).envelope
  /\ pc' = "pad_encrypted"
  /\ UNCHANGED <<K, iv, P, aad, out, encRegs, decRegs, inst, arg, blockNumber, tagState, call, pw, buf, gen>>

PadHand(envelope, key, tamper) ==
  /\ pc = "pad_encrypted"
  /\ call' = [envelope |-> envelope, key |-> key, aad |-> <<>>, tamper |-> tamper]
  /\ pc' = "pad_called"
  /\ UNCHANGED <<K, iv, P, aad, env, out, encRegs, decRegs, inst, arg, blockNumber, tagState, pw, buf, gen>>

PadPass == PadHand(env, K, "none")

PadWrongKey == PadHand(env, KeyOf(2), "key")

PadRewrite ==
  \E target \in FinalBlocks :
    PadHand(rewriteLastBlock(env, pkcs7_pad(P, BLOCK_BYTES), target), K, "rewritten")

\* the block loop of decryptCTR / decryptCBC
PadDecryptBlocks ==
  /\ pc = "pad_called"
  /\ buf' = IF Len(iv) = NONCE_BYTES
            THEN ctrDecryptBlocks(SubSeq(call.envelope, NONCE_BYTES + 1, Len(call.envelope)),
                                  call.key, SubSeq(call.envelope, 1, NONCE_BYTES))
            ELSE cbcDecryptRun(call.envelope, call.key).padded
  /\ pc' = "pad_decrypted"
  /\ UNCHANGED <<K, iv, P, aad, env, out, encRegs, decRegs, inst, arg, blockNumber, tagState, call, pw, gen>>

\* the return of decryptCTR / decryptCBC
PadUnpad ==
  /\ pc = "pad_decrypted"
  /\ out' = pkcs7_unpad(buf)
  /\ pc' = "pad_done"
  /\ UNCHANGED <<K, iv, P, aad, env, encRegs, decRegs, inst, arg, blockNumber, tagState, call, pw, buf, gen>>

NextPad ==
  PadEncrypt \/ PadPass \/ PadWrongKey \/ PadRewrite \/ PadDecryptBlocks \/ PadUnpad

SpecPad == InitPad /\ [][NextPad]_vars

-----------------------------------------------------------------------------
(* Scenario: generate_sbox for a key and a round, or over given SHAKE256    *)
(* outputs                                                                 *)

\* the retries the model runs (the code: 100)
RetryBound == 2

SBoxRounds == {0, 1, 23}

\* the choices j of a shuffle that ends in a permutation meeting the strict
\* thresholds (nonlinearity 112, differential uniformity 4, degree 7)
StrongChoices ==
  <<22, 187, 84, 176, 15, 45, 153, 65, 104, 66, 230, 191, 13, 137, 161, 140, 223,
   40, 85, 206, 233, 135, 30, 155, 148, 142, 217, 105, 17, 152, 65, 65, 158, 29,
   193, 134, 185, 87, 53, 97, 14, 66, 3, 72, 102, 181, 62, 112, 138, 139, 189,
   75, 31, 116, 193, 155, 198, 180, 166, 28, 46, 37, 120, 186, 8, 174, 122, 101,
   135, 8, 86, 108, 169, 78, 3, 141, 109, 55, 155, 148, 121, 105, 149, 145, 98,
   145, 102, 37, 92, 36, 6, 73, 10, 58, 50, 65, 86, 11, 94, 29, 20, 108,
   40, 70, 136, 144, 42, 34, 134, 79, 129, 96, 115, 25, 93, 100, 61, 126, 92,
   28, 23, 68, 28, 95, 61, 19, 12, 122, 3, 13, 22, 16, 33, 87, 78, 101,
   25, 56, 94, 79, 115, 64, 10, 81, 37, 86, 60, 80, 3, 2, 40, 69, 28,
   51, 77, 67, 15, 12, 11, 81, 13, 88, 76, 74, 57, 40, 31, 2, 57, 20,
   34, 32, 34, 0, 62, 34, 13, 47, 17, 41, 60, 66, 59, 0, 65, 40, 20,
   27, 26, 44, 61, 9, 2, 55, 39, 30, 40, 57, 18, 7, 34, 5, 34, 24,
   46, 35, 41, 4, 21, 41, 11, 10, 35, 34, 6, 24, 30, 20, 2, 5, 20,
   27, 32, 6, 8, 9, 24, 24, 21, 18, 0, 21, 18, 9, 8, 11, 9, 17,
   9, 13, 7, 12, 12, 9, 11, 8, 1, 4, 5, 2, 3, 4, 2, 0, 1>>

StrongSeed ==
  SubSeq([i \in 1..(2 * SBOX_SIZE) |->
            IF i % 2 = 0 /\ i <= 510 THEN StrongChoices[i \div 2] ELSE 0], 1, 2 * SBOX_SIZE)

PatternSeed(a, b) ==
  SubSeq([i \in 1..(2 * SBOX_SIZE) |-> ((a * i) + (b * 85)) % 256], 1, 2 * SBOX_SIZE)

\* one seed per attempt; the strong one at attempt k, nowhere for k = 0
SeedLists ==
  {SubSeq([r \in 1..(RetryBound + 1) |-> IF r = k THEN StrongSeed ELSE PatternSeed(a, r)],
          1, RetryBound + 1) : a \in 0..5, k \in 0..(RetryBound + 1)}

SBoxArgs ==
  {[kind |-> "key", bytes |-> key, round |-> round, seeds |-> <<>>] :
     key \in Keys, round \in SBoxRounds}
  \cup {[kind |-> "seeds", bytes |-> <<>>, round |-> 0, seeds |-> seeds] : seeds \in SeedLists}

InitSBox ==
  /\ pc = "sbox_start"
  /\ arg \in SBoxArgs
  /\ K = <<>> /\ iv = <<>> /\ P = <<>> /\ aad = <<>> /\ env = <<>> /\ out = NoResult
  /\ encRegs = <<>> /\ decRegs = <<>> /\ blockNumber = 0
  /\ inst = NoInstance /\ tagState = "unchecked" /\ call = NoCall /\ pw = NoPw
  /\ buf = <<>> /\ gen = NoGen

SBoxFirstAttempt ==
  /\ pc = "sbox_start"
  /\ \E g \in {sboxAttempt(arg, 0)} :
       gen' = g /\ pc' = IF g.verified THEN "sbox_return" ELSE "sbox_retry"
  /\ UNCHANGED <<K, iv, P, aad, env, out, encRegs, decRegs, inst, arg, blockNumber, tagState, call, pw, buf>>

SBoxRetry ==
  /\ pc = "sbox_retry" /\ gen.retry < RetryBound
  /\ \E g \in {sboxAttempt(arg, gen.retry + 1)} :
       gen' = g /\ pc' = IF g.verified THEN "sbox_return" ELSE "sbox_retry"
  /\ UNCHANGED <<K, iv, P, aad, env, out, encRegs, decRegs, inst, arg, blockNumber, tagState, call, pw, buf>>

\* after BREAK, or after the last retry
SBoxReturn ==
  /\ pc = "sbox_return" \/ (pc = "sbox_retry" /\ gen.retry = RetryBound)
  /\ out' = sboxReturn(gen)
  /\ pc' = "sbox_done"
  /\ UNCHANGED <<K, iv, P, aad, env, encRegs, decRegs, inst, arg, blockNumber, tagState, call, pw, buf, gen>>

NextSBox == SBoxFirstAttempt \/ SBoxRetry \/ SBoxReturn

SpecSBox == InitSBox /\ [][NextSBox]_vars

-----------------------------------------------------------------------------
(* Scenario: key_expand steps 2-4, the selectors of a key; the 2-byte       *)
(* SHAKE256 outputs are those of the key or given ones                     *)

\* keys with every value of K[1] mod 16, twice
SelKeys == {[KeyOf(1) EXCEPT ![2] = v] : v \in 0..31}

RawSamples == <<<<0, 0>>, <<255, 254>>, <<255, 255>>, <<0, 1>>, <<18, 52>>, <<0, 0>>>>

\* 31 given outputs, with repeats
RawList(k) == SubSeq([i \in 1..31 |-> RawSamples[((i * k) % 6) + 1]], 1, 31)

SelArgs ==
  {[kind |-> "key", bytes |-> key, raws |-> <<>>] : key \in SelKeys}
  \cup {[kind |-> "raw", bytes |-> [KeyOf(2) EXCEPT ![2] = v], raws |-> RawList(k)] :
          v \in {0, 15}, k \in 1..3}

selBytesFor(a, i) ==
  IF a.kind = "key" THEN shake256WithDomain(a.bytes, DS_SELECTOR, i, 2) ELSE a.raws[i + 1]

InitSel ==
  /\ pc = "sel_start"
  /\ arg \in SelArgs
  /\ K = <<>> /\ iv = <<>> /\ P = <<>> /\ aad = <<>> /\ env = <<>> /\ out = NoResult
  /\ encRegs = <<>> /\ decRegs = <<>> /\ blockNumber = 0
  /\ inst = NoInstance /\ tagState = "unchecked" /\ call = NoCall /\ pw = NoPw
  /\ buf = <<>> /\ gen = NoGen

\* steps 2 and 3
SelGenerate ==
  /\ pc = "sel_start"
  /\ buf' = SubSeq([i \in 1..num_selectors(arg.bytes) |-> oddSelector(selBytesFor(arg, i - 1))],
                   1, num_selectors(arg.bytes))
  /\ pc' = "sel_generated"
  /\ UNCHANGED <<K, iv, P, aad, env, out, encRegs, decRegs, inst, arg, blockNumber, tagState, call, pw, gen>>

\* step 4
SelPermute ==
  /\ pc = "sel_generated"
  /\ out' = Ok(permuteSelectors(
                 [SEL |-> buf,
                  prng |-> ChaCha20_Init(shake256(arg.bytes \o DS_PERMUTE, 32), Zeros(12))],
                 Len(buf) - 1, 1).SEL)
  /\ pc' = "sel_done"
  /\ UNCHANGED <<K, iv, P, aad, env, encRegs, decRegs, inst, arg, blockNumber, tagState, call, pw, buf, gen>>

NextSel == SelGenerate \/ SelPermute

SpecSel == InitSel /\ [][NextSel]_vars

-----------------------------------------------------------------------------
(* Scenario: gfMul on three bytes, gfPow and gfInverse on a byte           *)

\* third factors of the associativity products
GFThird == {3, 83}
\* exponents of gfPow
GFExponents == {0, 1, 2, 254, 255}

InitGF ==
  /\ pc = "gf_init"
  /\ \/ \E a \in Byte, b \in Byte, c \in GFThird :
          arg = [kind |-> "mul", a |-> a, b |-> b, c |-> c, n |-> 0]
     \/ \E a \in Byte, n \in GFExponents :
          arg = [kind |-> "pow", a |-> a, b |-> 0, c |-> 0, n |-> n]
  /\ K = <<>> /\ iv = <<>> /\ P = <<>> /\ aad = <<>> /\ env = <<>>
  /\ out = NoResult /\ encRegs = <<>> /\ decRegs = <<>> /\ inst = NoInstance
  /\ blockNumber = 0 /\ tagState = "none"
  /\ call = NoCall /\ pw = NoPw /\ buf = <<>> /\ gen = NoGen

\* the products the tests of gfMul compare
GFMultiply ==
  /\ pc = "gf_init" /\ arg.kind = "mul"
  /\ out' = Ok([ab |-> gfMul(arg.a, arg.b),
                ba |-> gfMul(arg.b, arg.a),
                ab_c |-> gfMul(gfMul(arg.a, arg.b), arg.c),
                a_bc |-> gfMul(arg.a, gfMul(arg.b, arg.c)),
                a1 |-> gfMul(arg.a, 1),
                a0 |-> gfMul(arg.a, 0),
                za |-> gfMul(0, arg.a)])
  /\ pc' = "gf_mul"
  /\ UNCHANGED <<K, iv, P, aad, env, encRegs, decRegs, inst, arg, blockNumber, tagState, call, pw, buf, gen>>

\* gfPow(a, n), gfInverse(a) and the product of a and its inverse
GFPower ==
  /\ pc = "gf_init" /\ arg.kind = "pow"
  /\ \E inv \in {gfInverse(arg.a)} :
       out' = Ok([pow |-> gfPow(arg.a, arg.n), inv |-> inv, a_inv |-> gfMul(arg.a, inv)])
  /\ pc' = "gf_pow"
  /\ UNCHANGED <<K, iv, P, aad, env, encRegs, decRegs, inst, arg, blockNumber, tagState, call, pw, buf, gen>>

NextGF == GFMultiply \/ GFPower

SpecGF == InitGF /\ [][NextGF]_vars

-----------------------------------------------------------------------------
(* Scenario: gfMulRegister on a 512-bit register and a byte                *)

\* registers: the three of the tests, bytes all equal, and all bytes 0..255
\* in four different orders
GFRegisters ==
  {ToRegister(Repeat(1, 8)), ToRegister(Repeat(255, 8)),
   ToRegister(<<18, 52, 86, 120, 154, 188, 222, 240>>),
   Repeat(255, REGISTER_BYTES), Repeat(128, REGISTER_BYTES)}
    \cup {SubSeq([i \in 1..REGISTER_BYTES |-> ((i * 37) + (64 * q)) % 256], 1, REGISTER_BYTES) : q \in 0..3}

InitGFReg ==
  /\ pc = "reg_init"
  /\ arg \in {[kind |-> "reg", R |-> R, m |-> m] : R \in GFRegisters, m \in Byte}
  /\ K = <<>> /\ iv = <<>> /\ P = <<>> /\ aad = <<>> /\ env = <<>>
  /\ out = NoResult /\ encRegs = <<>> /\ decRegs = <<>> /\ inst = NoInstance
  /\ blockNumber = 0 /\ tagState = "none"
  /\ call = NoCall /\ pw = NoPw /\ buf = <<>> /\ gen = NoGen

GFMulRegister ==
  /\ pc = "reg_init"
  /\ out' = Ok(gfMulRegister(arg.R, arg.m))
  /\ pc' = "reg_done"
  /\ UNCHANGED <<K, iv, P, aad, env, encRegs, decRegs, inst, arg, blockNumber, tagState, call, pw, buf, gen>>

NextGFReg == GFMulRegister

SpecGFReg == InitGFReg /\ [][NextGFReg]_vars

-----------------------------------------------------------------------------
(* Scenario: RUC_CTR_Encrypt with one task per block; the tasks take their *)
(* steps in any order, and block n is stored as the n-th block of the body *)

\* plaintexts of two and of three blocks
ParPlainLens == {33, 64}

InitPar ==
  /\ pc = "par_start"
  /\ K \in Keys
  /\ iv = IVOf(1, NONCE_BYTES)
  /\ P \in {PlainOf(1, len) : len \in ParPlainLens}
  /\ aad = <<>> /\ env = <<>> /\ out = NoResult
  /\ encRegs = <<>> /\ decRegs = <<>> /\ inst = NoInstance /\ arg = NoArg
  /\ blockNumber = 0 /\ tagState = "none"
  /\ call = <<>> /\ pw = NoPw /\ buf = <<>> /\ gen = NoGen

\* IV, key_expand, mix_iv_into_state(R_init, IV), pkcs7_pad; out keeps the
\* envelope of the sequential loop
ParSetup ==
  /\ pc = "par_start"
  /\ \E IV \in {shake256(iv \o DS_CTR_IV, IV_BYTES)}, padded \in {pkcs7_pad(P, BLOCK_BYTES)} :
       \E h \in {newHeap(expandKey(K))} :
         \E R_init \in {mixIVIntoState(readRegisters(h, 0), IV)} :
           /\ gen' = writeRegisters(h, 0, R_init)
           /\ encRegs' = R_init
           /\ arg' = [kind |-> "par", IV |-> IV, padded |-> padded]
           /\ call' = SubSeq([n \in 1..(Len(padded) \div BLOCK_BYTES) |-> [at |-> "idle", ref |-> 0]],
                             1, Len(padded) \div BLOCK_BYTES)
           /\ buf' = SubSeq([n \in 1..(Len(padded) \div BLOCK_BYTES) |-> <<>>],
                            1, Len(padded) \div BLOCK_BYTES)
  /\ out' = Ok(encryptCTR(P, K, iv))
  /\ pc' = "par_running"
  /\ UNCHANGED <<K, iv, P, aad, env, decRegs, inst, blockNumber, tagState, pw>>

\* R = deep_copy(R_init)
TaskClone(n) ==
  /\ pc = "par_running" /\ n \in 1..Len(call) /\ call[n].at = "idle"
  /\ \E c \in {deepCopy(gen, 0)} :
       /\ gen' = c.heap
       /\ call' = [call EXCEPT ![n] = [at |-> "cloned", ref |-> c.ref]]
  /\ UNCHANGED <<pc, K, iv, P, aad, env, out, encRegs, decRegs, inst, arg, blockNumber, tagState, pw, buf>>

\* R[0] = R[0] XOR SHAKE256(counter_bytes || "CTR", 64)
TaskFold(n) ==
  /\ pc = "par_running" /\ n \in 1..Len(call) /\ call[n].at = "cloned"
  /\ gen' = writeRegisters(gen, call[n].ref, ctrBlockState(readRegisters(gen, call[n].ref), n - 1))
  /\ call' = [call EXCEPT ![n].at = "folded"]
  /\ UNCHANGED <<pc, K, iv, P, aad, env, out, encRegs, decRegs, inst, arg, blockNumber, tagState, pw, buf>>

\* C = encrypt_block(P, K, IV, n, R, SEL, S, RK), R modified in place
TaskEncrypt(n) ==
  /\ pc = "par_running" /\ n \in 1..Len(call) /\ call[n].at = "folded"
  /\ \E e \in {encryptBlock(BlockOf(arg.padded, n - 1), K, arg.IV, n - 1,
                              readRegisters(gen, call[n].ref), gen.keyMaterial)} :
       /\ buf' = [buf EXCEPT ![n] = e.C]
       /\ gen' = writeRegisters(gen, call[n].ref, e.R)
  /\ call' = [call EXCEPT ![n].at = "done"]
  /\ UNCHANGED <<pc, K, iv, P, aad, env, out, encRegs, decRegs, inst, arg, blockNumber, tagState, pw>>

\* RETURN nonce || concat(ciphertext)
ParJoin ==
  /\ pc = "par_running"
  /\ \A n \in 1..Len(call) : call[n].at = "done"
  /\ env' = iv \o concat(buf)
  /\ pc' = "par_done"
  /\ UNCHANGED <<K, iv, P, aad, out, encRegs, decRegs, inst, arg, blockNumber, tagState, call, pw, buf, gen>>

NextPar ==
  \/ ParSetup
  \/ \E n \in 1..3 : TaskClone(n) \/ TaskFold(n) \/ TaskEncrypt(n)
  \/ ParJoin

SpecPar == InitPar /\ [][NextPar]_vars

-----------------------------------------------------------------------------
(* Scenario: states created from one KeyMaterial, each mixed with the IV   *)
(* or not, each used for one block call; arg keeps the key material as it  *)
(* was after expandKey                                                     *)

MaxStates == 2

FrameBlocks == {PlainOf(1, BLOCK_BYTES)}

InitFrame ==
  /\ pc = "frame"
  /\ K \in Keys
  /\ iv = IVOf(1, IV_BYTES)
  /\ \E keyMaterial \in {expandKey(K)} :
       /\ gen = newHeap(keyMaterial)
       /\ arg = [kind |-> "frame", keyMaterial |-> keyMaterial]
  /\ P = <<>> /\ aad = <<>> /\ env = <<>> /\ out = NoResult
  /\ encRegs = <<>> /\ decRegs = <<>> /\ inst = NoInstance
  /\ blockNumber = 0 /\ tagState = "none"
  /\ call = <<>> /\ pw = NoPw /\ buf = <<>>

\* const state = createCipherState(keyMaterial)
FrameCreate ==
  /\ pc = "frame" /\ Len(call) < MaxStates
  /\ \E c \in {deepCopy(gen, 0)} :
       /\ gen' = c.heap
       /\ call' = Append(call, [ref |-> c.ref, mixed |-> FALSE, blocks |-> 0])
  /\ UNCHANGED <<pc, K, iv, P, aad, env, out, encRegs, decRegs, inst, arg, blockNumber, tagState, pw, buf>>

\* mixIVIntoState(state.registers, iv)
FrameMixIV(s) ==
  /\ pc = "frame" /\ s \in 1..Len(call)
  /\ ~call[s].mixed /\ call[s].blocks = 0
  /\ gen' = writeRegisters(gen, call[s].ref, mixIVIntoState(readRegisters(gen, call[s].ref), iv))
  /\ call' = [call EXCEPT ![s].mixed = TRUE]
  /\ UNCHANGED <<pc, K, iv, P, aad, env, out, encRegs, decRegs, inst, arg, blockNumber, tagState, pw, buf>>

\* encryptBlock(plaintext, key, iv, 0n, state, keyMaterial)
FrameEncrypt(s) ==
  /\ pc = "frame" /\ s \in 1..Len(call) /\ call[s].blocks = 0
  /\ \E Pb \in FrameBlocks :
       \E e \in {encryptBlock(Pb, K, iv, 0, readRegisters(gen, call[s].ref), gen.keyMaterial)} :
         /\ env' = e.C
         /\ gen' = writeRegisters(gen, call[s].ref, e.R)
  /\ call' = [call EXCEPT ![s].blocks = 1]
  /\ UNCHANGED <<pc, K, iv, P, aad, out, encRegs, decRegs, inst, arg, blockNumber, tagState, pw, buf>>

\* decryptBlock(ciphertext, key, iv, 0n, state, keyMaterial)
FrameDecrypt(s) ==
  /\ pc = "frame" /\ s \in 1..Len(call) /\ call[s].blocks = 0
  /\ \E Cb \in FrameBlocks :
       \E d \in {decryptBlock(Cb, K, iv, 0, readRegisters(gen, call[s].ref), gen.keyMaterial)} :
         /\ env' = d.P
         /\ gen' = writeRegisters(gen, call[s].ref, d.R)
  /\ call' = [call EXCEPT ![s].blocks = 1]
  /\ UNCHANGED <<pc, K, iv, P, aad, out, encRegs, decRegs, inst, arg, blockNumber, tagState, pw, buf>>

NextFrame ==
  \/ FrameCreate
  \/ \E s \in 1..MaxStates : FrameMixIV(s) \/ FrameEncrypt(s) \/ FrameDecrypt(s)

SpecFrame == InitFrame /\ [][NextFrame]_vars

-----------------------------------------------------------------------------
(* Claims on the block engine and the block modes                          *)

\* C9: when encryptBlock and decryptBlock start from identical registers,
\* decryptBlock returns the plaintext block that was encrypted and leaves the
\* registers that encryptBlock left (the feedback uses C on both sides).
C9_BlockInverse ==
  pc = "block_decrypted" => (out = Ok(P) /\ decRegs = encRegs)

\* a second block of a message went through both sides, on carried registers
C9_Witness ==
  /\ pc = "block_decrypted"
  /\ blockNumber = 1
  /\ out = Ok(P)
  /\ env # P
  /\ decRegs = encRegs

\* C1: decryptCTR(encryptCTR(P, K, nonce), K) returns exactly P, for every
\* plaintext length (0 and the multiples of 32 included).
C1_CTRRoundTrip ==
  pc = "ctr_decrypted" => out = Ok(P)

\* a plaintext of two full blocks came back
C1_Witness ==
  /\ pc = "ctr_decrypted"
  /\ Len(P) = 2 * BLOCK_BYTES
  /\ out = Ok(P)

\* C6: encryptCTR returns the supplied 16-byte nonce followed by a ciphertext of
\* exactly 32 * (floor(|P| / 32) + 1) bytes: a positive multiple of 32, strictly
\* longer than P.
C6_CTRLayout ==
  pc \in {"ctr_encrypted", "ctr_decrypted"} =>
    /\ Len(env) = NONCE_BYTES + BLOCK_BYTES * ((Len(P) \div BLOCK_BYTES) + 1)
    /\ SubSeq(env, 1, NONCE_BYTES) = iv
    /\ (Len(env) - NONCE_BYTES) % BLOCK_BYTES = 0
    /\ Len(env) - NONCE_BYTES > Len(P)

\* a plaintext of exactly one block got one full pad block
C6_Witness ==
  /\ pc = "ctr_encrypted"
  /\ Len(P) = BLOCK_BYTES
  /\ Len(env) = NONCE_BYTES + 2 * BLOCK_BYTES

\* C8: decryptCBC(encryptCBC(P, K, IV), K) returns P, and the registers carried
\* from block to block are the same on both sides, block after block.
C8_CBCRoundTrip ==
  pc = "cbc_decrypted" => (out = Ok(P) /\ decRegs = encRegs)

\* a message of three blocks came back, its registers changing at every block
C8_Witness ==
  /\ pc = "cbc_decrypted"
  /\ Len(encRegs) = 3
  /\ encRegs[1] # encRegs[2]
  /\ encRegs[2] # encRegs[3]
  /\ decRegs = encRegs
  /\ out = Ok(P)

-----------------------------------------------------------------------------
(* Claims on the constructor                                               *)

\* C10: constructing RandomUniverseCipher from a byte array whose length is
\* not 64 throws and leaves no instance (no stored key); a byte array of
\* length 64 is accepted and becomes the key of the instance.
C10_KeyLengthRejection ==
  (arg.kind = "bytes" /\ pc # "ctor_new") =>
     IF Len(arg.bytes) # KEY_BYTES
     THEN pc = "ctor_threw" /\ inst = NoInstance /\ out.data = <<>>
     ELSE pc \in {"ctor_done", "key_read"} /\ inst.created /\ inst.key = arg.bytes

C10_Witness ==
  /\ pc = "ctor_threw"
  /\ arg.kind = "bytes" /\ Len(arg.bytes) = KEY_BYTES + 1
  /\ inst = NoInstance

-----------------------------------------------------------------------------
(* Claims on the authenticated mode                                        *)

AuthenticationFailed == Throw("AuthenticationFailed")

\* C2: after one bit of the envelope (nonce, ciphertext or tag) or of the
\* associated data is changed, aeadDecrypt with the key K fails with the
\* authentication error and returns no plaintext.
C2_AEADIntegrity ==
  (pc = "aead_done" /\ call.tamper = "bit") => out = AuthenticationFailed

C2_Witness ==
  /\ pc = "aead_done" /\ call.tamper = "bit"
  /\ call.aad = aad
  /\ SubSeq(call.envelope, 1, NONCE_BYTES) # iv
  /\ out = AuthenticationFailed

\* C3: aeadDecrypt with associated data A2 of an envelope sealed with A1 # A2
\* fails with the authentication error, also when A2 is omitted and when A2
\* is A1 with a trailing zero byte.
C3_AADBinding ==
  (pc = "aead_done" /\ call.tamper = "aad") => out = AuthenticationFailed

C3_Witness ==
  /\ pc = "aead_done" /\ call.tamper = "aad"
  /\ aad = <<1>> /\ call.aad = <<1, 0>>
  /\ out = AuthenticationFailed

\* C4: aeadDecrypt produces its result only after the tag has been computed
\* and compared; after a mismatch it ends in the authentication error and
\* returns no plaintext byte; plaintext is returned only after a match.
C4_VerifyBeforeRelease ==
  /\ out # NoResult => (tagState # "unchecked" /\ pc = "aead_done")
  /\ (tagState = "mismatch" /\ pc = "aead_done") => out = AuthenticationFailed
  /\ out.status = "ok" => tagState = "match"
  /\ out.data # <<>> => tagState = "match"

C4_Witness ==
  /\ pc = "aead_done" /\ call.tamper = "key"
  /\ tagState = "mismatch" /\ out = AuthenticationFailed

-----------------------------------------------------------------------------
(* Claims on the password-based calls                                      *)

\* C11: an input shorter than salt + nonce + one block (+ the tag for AEAD)
\* fails with the length error with no salt extracted, no key derivation and
\* no decryption started; an input of at least that length is never rejected
\* by this length check.
C11_TooShortBeforeWork ==
  LET minimum == 16 + 16 + 32 + (IF pw.mode = "aead" THEN 32 ELSE 0)
  IN  pc # "pw_call" =>
        IF Len(env) < minimum
        THEN /\ pc = "pw_too_short" /\ out = Throw("InvalidCiphertextLength")
             /\ pw.salt = <<>> /\ pw.kdfCalls = 0 /\ ~pw.decrypting /\ inst = NoInstance
        ELSE pc # "pw_too_short"

C11_Witness ==
  /\ pc = "pw_too_short" /\ pw.mode = "aead" /\ Len(env) = 95
  /\ pw.kdfCalls = 0 /\ pw.salt = <<>>

-----------------------------------------------------------------------------
(* Claims on padding                                                       *)

\* PKCS#7 padding for blocks of 32 bytes: the last byte b is in 1..32 and the
\* last b bytes all equal b
ValidPkcs7(data) ==
  /\ Len(data) > 0
  /\ data[Len(data)] \in 1..BLOCK_BYTES
  /\ \A i \in (Len(data) - data[Len(data)] + 1)..Len(data) : data[i] = data[Len(data)]

\* C12: when the decrypted final block of a CTR or CBC message does not end in
\* valid PKCS#7 padding (last byte b is 0, b is out of range, or the last b
\* bytes are not all b), decryption fails with the invalid-padding error and
\* returns no plaintext byte.
C12_InvalidPaddingReleasesNothing ==
  (pc = "pad_done" /\ ~ValidPkcs7(buf)) => out = Throw("InvalidPadding")

\* C12, the part the code keeps: a pad byte of 0, a pad byte above the length
\* of the whole message, or unequal pad bytes end in the invalid-padding error
C12_RejectedCases ==
  (pc = "pad_done"
     /\ (buf[Len(buf)] = 0 \/ buf[Len(buf)] > Len(buf)
           \/ \E i \in (Len(buf) - buf[Len(buf)] + 1)..Len(buf) : buf[i] # buf[Len(buf)]))
  => out = Throw("InvalidPadding")

\* C12, the failing case: the last 33 bytes of a 64-byte message are 33 and
\* decryption returns the first 31 bytes
C12_PadByte33Accepted ==
  /\ pc = "pad_done" /\ call.tamper = "rewritten"
  /\ Len(buf) = 2 * BLOCK_BYTES /\ buf[Len(buf)] = 33
  /\ out = Ok(SubSeq(P, 1, 31))

-----------------------------------------------------------------------------
(* Claims on the S-boxes                                                   *)

\* C13: for every key, round and shuffle seed, the table generate_sbox
\* returns has 256 entries and every value 0..255 appears in it exactly once;
\* so does every candidate on the way.
C13_SBoxBijective ==
  /\ pc # "sbox_start" =>
       /\ Len(gen.sbox) = 256
       /\ \A v \in 0..255 : Cardinality({i \in 1..256 : gen.sbox[i] = v}) = 1
  /\ pc = "sbox_done" =>
       /\ out.status = "ok" /\ Len(out.data) = 256
       /\ \A v \in 0..255 : Cardinality({i \in 1..256 : out.data[i] = v}) = 1

C13_Witness ==
  /\ pc = "sbox_done" /\ arg.kind = "key" /\ arg.round = 23
  /\ out.status = "ok" /\ out.data # identitySBox

\* C14: generate_sbox returns an S-box that passed the strict tests, or, when
\* the first attempt and every retry have failed, fails with
\* SBoxGenerationFailed; it never returns an S-box that failed a strict test.
C14_StrictOrFail ==
  pc = "sbox_done" =>
    IF gen.verified THEN out = Ok(gen.sbox)
    ELSE gen.retry = RetryBound /\ out = Throw("SBoxGenerationFailed")

\* C14, the failing case: every attempt failed and the last candidate is
\* returned
C14_UnverifiedReturned ==
  /\ pc = "sbox_done" /\ arg.kind = "key"
  /\ gen.retry = RetryBound /\ ~gen.verified
  /\ out = Ok(gen.sbox)

\* C14, the part the code keeps: before the retries are used up only a
\* candidate that passed the strict tests is returned
C14_NoEarlyUnverified ==
  (pc = "sbox_done" /\ gen.retry < RetryBound) => (gen.verified /\ out = Ok(gen.sbox))

-----------------------------------------------------------------------------
(* Claims on the selectors                                                 *)

\* C15: key expansion yields N = 16 + (K[1] mod 16) selectors, 16 <= N <= 31,
\* every selector is odd and in 1..65535, and the final sequence holds every
\* value as often as the sequence before the shuffle.
C15_SelectorInvariants ==
  pc = "sel_done" =>
    /\ Len(out.data) = 16 + (arg.bytes[2] % 16)
    /\ Len(out.data) \in 16..31
    /\ \A i \in 1..Len(out.data) : out.data[i] % 2 = 1 /\ out.data[i] \in 1..65535
    /\ Len(buf) = Len(out.data)
    /\ \A i \in 1..Len(buf) :
         Cardinality({k \in 1..Len(buf) : buf[k] = buf[i]})
           = Cardinality({k \in 1..Len(out.data) : out.data[k] = buf[i]})

C15_Witness ==
  /\ pc = "sel_done" /\ arg.kind = "raw" /\ Len(out.data) = 31
  /\ out.data # buf
  /\ \E i \in 1..31 : out.data[i] = 65535
  /\ \E i \in 1..31 : out.data[i] = 1

-----------------------------------------------------------------------------
(* Claims on GF(2^8)                                                       *)

\* x^8 + x^4 + x^3 + x + 1 with its leading term, 0x11B
FieldPoly == 256 + GF_POLY

\* the product of two polynomials over GF(2), coefficients in the bits
RECURSIVE clmul(_, _, _)
clmul(a, b, i) ==
  IF i = 8 THEN 0
  ELSE BitXor(IF (b \div Pow2(i)) % 2 = 1 THEN a * Pow2(i) ELSE 0, clmul(a, b, i + 1))

\* the remainder of the polynomial x modulo FieldPoly, from bit `bit` down
RECURSIVE polyMod(_, _)
polyMod(x, bit) ==
  IF bit < 8 THEN x
  ELSE polyMod(IF (x \div Pow2(bit)) % 2 = 1 THEN BitXor(x, FieldPoly * Pow2(bit - 8)) ELSE x,
               bit - 1)

\* C16: gfMul has 1 as identity and 0 as absorbing element, is commutative
\* and associative, yields a byte, and is the carry-less product of its
\* arguments reduced modulo 0x11B; gfMul(0x57, 0x83) = 0xC1.
C16_GFLaws ==
  (pc = "gf_mul") =>
    /\ out.data.a1 = arg.a
    /\ out.data.a0 = 0 /\ out.data.za = 0
    /\ out.data.ab = out.data.ba
    /\ out.data.ab_c = out.data.a_bc
    /\ out.data.ab \in Byte /\ out.data.ab_c \in Byte
    /\ out.data.ab = polyMod(clmul(arg.a, arg.b, 0), 14)
    /\ (arg.a = 87 /\ arg.b = 131) => out.data.ab = 193

\* the product 0x57 * 0x83 was computed, with a reduction in it
C16_Witness ==
  /\ pc = "gf_mul" /\ arg.a = 87 /\ arg.b = 131 /\ arg.c = 83
  /\ out.data.ab = 193 /\ out.data.ab # (87 * 131) % 256
  /\ out.data.ab_c = out.data.a_bc /\ out.data.ab_c # 0

-----------------------------------------------------------------------------
(* Claims on states and key material                                       *)

-----------------------------------------------------------------------------
(* Claims on the password-bundled authenticated calls                      *)

\* C21: the output of encryptWithPasswordAEAD is the 16-byte salt followed
\* by the AEAD envelope and is not too short for decryptWithPasswordAEAD,
\* which with the same password, associated data and level returns the
\* plaintext, the empty one included.
C21_PasswordAEADRoundTrip ==
  /\ (pc \in {"pwa_encrypted", "pwa_done"}) =>
       /\ SubSeq(env, 1, SALT_SIZE) = pw.salt
       /\ Len(env) = SALT_SIZE + NONCE_BYTES + (((Len(P) \div BLOCK_BYTES) + 1) * BLOCK_BYTES) + 32
       /\ SubSeq(env, SALT_SIZE + 1, SALT_SIZE + NONCE_BYTES) = iv
       /\ ~pwTooShort(env, "aead")
  /\ (pc = "pwa_done" /\ arg.decryptLevel = arg.level) => out = Ok(P)

\* the empty plaintext went through both calls at the level 'moderate'
C21_Witness ==
  /\ pc = "pwa_done" /\ P = <<>> /\ aad = <<1, 2, 3>>
  /\ arg.level = 2 /\ arg.decryptLevel = 2
  /\ Len(env) = 96 /\ out = Ok(<<>>)

\* another level at decryption derives another key and the call fails
C21_OtherLevelFails ==
  /\ pc = "pwa_done" /\ arg.decryptLevel # arg.level /\ out.status = "AuthenticationFailed"

-----------------------------------------------------------------------------
(* Claims on the round function                                            *)

\* XOR of three registers
Xor3(a, b, c) == XorBytes(XorBytes(a, b), c)

\* C22, as stated: after the inter-round diffusion every register i is
\* old R[i] XOR old R[(i+1) mod 7] XOR old R[(i+2) mod 7], all seven read
\* before any is written.
C22_SnapshotReads ==
  (pc = "mix_done") =>
    \A i \in 0..6 :
      out.data[i + 1] = Xor3(arg.R[i + 1], arg.R[((i + 1) % 7) + 1], arg.R[((i + 2) % 7) + 1])

\* C22, amended: the diffusion updates the registers in place one after the
\* other: registers 0..4 are the XOR of three old values, register 5 is
\* old R[5] XOR old R[6] XOR new R[0], register 6 is old R[6] XOR new R[0]
\* XOR new R[1].
C22_SequentialReads ==
  (pc = "mix_done") =>
    /\ Len(out.data) = REGISTER_COUNT
    /\ \A i \in 0..4 :
         out.data[i + 1] = Xor3(arg.R[i + 1], arg.R[i + 2], arg.R[i + 3])
    /\ out.data[6] = Xor3(arg.R[6], arg.R[7], out.data[1])
    /\ out.data[7] = Xor3(arg.R[7], out.data[1], out.data[2])

\* registers of an expanded key were mixed, and registers 5 and 6 are not
\* what a simultaneous update gives
C22_Witness ==
  /\ pc = "mix_done" /\ arg.kind = "key"
  /\ out.data[6] # Xor3(arg.R[6], arg.R[7], arg.R[1])
  /\ out.data[7] # Xor3(arg.R[7], arg.R[1], arg.R[2])
  /\ out.data[1] = Xor3(arg.R[1], arg.R[2], arg.R[3])

\* the steps taken one at a time end where encryptBlock ends
StepsAgree ==
  (pc = "st_done") => (out.data.C = env /\ out.data.R = gen.R)

\* a register below 2^512: 64 bytes
IsRegister(x) == Len(x) = REGISTER_BYTES /\ \A k \in 1..REGISTER_BYTES : x[k] \in Byte

\* C23: from seven registers below 2^512, every register is below 2^512
\* after every step of IV mixing, every selector step and the ciphertext
\* feedback; the shifts of the selector step and of the feedback shift no
\* set bit past position 511.
C23_RegisterWidth ==
  (pc \in {"st_rotate", "st_cross", "st_round", "st_done"}) =>
    /\ Len(gen.R) = REGISTER_COUNT
    /\ \A i \in 1..REGISTER_COUNT : IsRegister(gen.R[i])
    /\ buf.shifted < Pow2(24)
    /\ \A i \in 1..Len(buf.discarded) : buf.discarded[i] = Zeros(REGISTER_BYTES)

\* the feedback was applied: register 6 took the ciphertext shifted by 222
\* bits with the top bit of the ciphertext set, and the last selector step
\* shifted its result to bit 15 or higher
C23_Witness ==
  /\ pc = "st_done" /\ Len(buf.discarded) = REGISTER_COUNT
  /\ env[1] >= 128
  /\ out.data.R = gen.R
  /\ buf.shifted >= Pow2(15)

-----------------------------------------------------------------------------
(* Claims on the CTR keystream                                             *)

\* C24: for a fixed key and nonce the keystream of every block is the same
\* whatever the plaintext: flipping one bit of the plaintext flips that bit
\* of the ciphertext and no other bit of the envelope.
C24_KeystreamPlaintextIndependent ==
  (pc = "flip_done") =>
    /\ Len(out.data) = Len(env)
    /\ \A k \in 1..Len(env) :
         out.data[k] = IF k = NONCE_BYTES + arg.at THEN Xor8(env[k], Pow2(arg.bit)) ELSE env[k]
    /\ XorBytes(SubSeq(env, NONCE_BYTES + 1, Len(env)), pkcs7_pad(P, BLOCK_BYTES))
         = XorBytes(SubSeq(out.data, NONCE_BYTES + 1, Len(out.data)),
                    pkcs7_pad(flipBit(P, arg.at, arg.bit), BLOCK_BYTES))

\* the top bit of the last byte of block 0 was flipped in a message of three
\* blocks; blocks 1 and 2 of the two envelopes are the same
C24_Witness ==
  /\ pc = "flip_done" /\ Len(P) = 64 /\ arg.at = 32 /\ arg.bit = 7
  /\ out.data # env
  /\ SubSeq(out.data, NONCE_BYTES + BLOCK_BYTES + 1, Len(env))
       = SubSeq(env, NONCE_BYTES + BLOCK_BYTES + 1, Len(env))
  /\ Len(env) = NONCE_BYTES + (3 * BLOCK_BYTES)

-----------------------------------------------------------------------------
(* Claims on the ChaCha20 reader                                           *)

\* block(0) || block(1) || ... || block(n - 1) under the reader's key
RECURSIVE Stream(_)
Stream(n) == IF n = 0 THEN <<>> ELSE Stream(n - 1) \o ChaCha20_Block(K, iv, n - 1)

\* C25: whatever the sequence of NextBytes requests, the bytes returned so
\* far, concatenated, are the first bytes of block(0) || block(1) || ...;
\* each request returns exactly count bytes, the counter is the number of
\* blocks generated (one per refill, the fewest that cover the bytes
\* returned), buffer_pos stays in 0..64 and the buffer is the last block
\* generated.
C25_ChunkingInvariant ==
  (pc = "reader") =>
    /\ gen.st.buffer_pos \in 0..CHACHA_BLOCK
    /\ gen.st.counter = (Len(buf) + CHACHA_BLOCK - 1) \div CHACHA_BLOCK
    /\ gen.st.counter = 0 => (gen.st.buffer_pos = CHACHA_BLOCK /\ gen.st.buffer = <<>>)
    /\ gen.st.counter > 0 =>
         /\ gen.st.buffer_pos = Len(buf) - ((gen.st.counter - 1) * CHACHA_BLOCK)
         /\ gen.st.buffer = ChaCha20_Block(K, iv, gen.st.counter - 1)
    /\ Len(buf) = arg.before + arg.count
    /\ Len(out.data) = arg.count
    /\ buf = SubSeq(Stream(gen.st.counter), 1, Len(buf))

\* a request started in the middle of block 0 and ended in block 2, after
\* at least one earlier request
C25_Witness ==
  /\ pc = "reader"
  /\ arg.before % CHACHA_BLOCK # 0 /\ arg.before < CHACHA_BLOCK
  /\ arg.before + arg.count > 2 * CHACHA_BLOCK
  /\ gen.st.counter = 3
  /\ ChaCha20_Block(K, iv, 0) # ChaCha20_Block(K, iv, 1)

-----------------------------------------------------------------------------
(* Claims on the crypto worker                                             *)

\* the messages the worker has posted for request id, in order
PostedFor(id) == SelectSeq(buf, LAMBDA m : m.id = id)

IsTerminal(m) == m.type \in {"success", "error"}

TerminalPosted(id) == \E k \in 1..Len(buf) : buf[k].id = id /\ IsTerminal(buf[k])

C27_Protocol ==
  (pc = "worker") =>
    \A id \in RequestIds :
      gen[id].type \in {"encrypt", "decrypt"} =>
        With(PostedFor(id), LAMBDA posted :
          /\ Cardinality({k \in 1..Len(posted) : IsTerminal(posted[k])}) <= 1
          /\ \A k \in 1..Len(posted) : IsTerminal(posted[k]) => k = Len(posted)
          /\ (gen[id].pc = "returned") <=> (posted # <<>> /\ IsTerminal(posted[Len(posted)]))
          /\ (posted # <<>> /\ posted[Len(posted)].type = "success") =>
               posted = <<postProgress(id, 20), postProgress(id, 50), postProgress(id, 100),
                          postTerminal("success", id)>>)

\* C27: every encrypt or decrypt request gets exactly one terminal message
\* (success or error) with its id, which is the last message posted for that
\* id, and a success comes after progress 20, 50 and 100 in that order,
\* however the handlers of several requests interleave.
C27_OneTerminalResponse ==
  /\ []C27_Protocol
  /\ \A id \in RequestIds :
       (gen[id].pc = "queued" /\ gen[id].type \in {"encrypt", "decrypt"}) ~> TerminalPosted(id)

\* request 2 was received while request 1 was at its await and finished
\* first; both have their terminal message, one a success, one an error
C27_Witness ==
  /\ pc = "worker"
  /\ gen[1].pc = "returned" /\ gen[2].pc = "returned"
  /\ gen[1].type = "encrypt" /\ gen[2].type = "decrypt"
  /\ \E a, b, c \in 1..Len(buf) :
       /\ a < b /\ b < c
       /\ buf[a] = postProgress(2, 20)
       /\ buf[b] = postTerminal("error", 2)
       /\ buf[c] = postTerminal("success", 1)
  /\ buf[2] = postProgress(1, 50)

-----------------------------------------------------------------------------
(* Claims on the file panel                                                *)

\* C28: from the sending of a worker request to the settling of its promise
\* both file buttons stay disabled, so pendingOperation is never overwritten
\* while set and every success or error response settles the promise of the
\* request that produced it.
C28_SingleOutstanding ==
  (pc = "ui") =>
    /\ \A h \in Handlers : gen[h].pc = "waiting" => arg.disabled
    /\ ~arg.overwritten
    /\ \A h \in Handlers : gen[h].settledBy \in {0, h}

\* the response to request 1 has settled the promise of request 2, and
\* request 1's handler waits on a promise nothing refers to any more
C28_ResponseSettlesOtherRequest ==
  /\ pc = "ui"
  /\ gen[2].settledBy = 1
  /\ gen[1].pc = "waiting" /\ arg.pendingOperation = 0
  /\ buf = <<>> /\ env = <<>>

\* the file buttons are enabled while a request is with the worker
C28_EnabledWhileWaiting ==
  /\ pc = "ui"
  /\ \E h \in Handlers : gen[h].pc = "waiting"
  /\ ~arg.disabled /\ ~arg.overwritten

-----------------------------------------------------------------------------
(* Claims on the chunked file reader                                       *)

CeilDiv(a, b) == (a + b - 1) \div b

\* the calls of onChunk made so far are the first chunks of the file, in
\* order, each started with no other call running, and the progress values
\* do not decrease
C29_ChunksSoFar ==
  (pc = "chunks") =>
    /\ Len(buf) <= CeilDiv(Len(P), arg.chunkSize)
    /\ \A k \in 1..Len(buf) :
         /\ buf[k].offset = (k - 1) * arg.chunkSize
         /\ buf[k].totalSize = Len(P)
         /\ buf[k].running = 0
         /\ buf[k].chunk = SubSeq(P, buf[k].offset + 1,
                                   Min(buf[k].offset + arg.chunkSize, Len(P)))
    /\ \A k \in 1..(Len(env) - 1) : env[k] <= env[k + 1]
    /\ \A k \in 1..Len(env) : env[k] \in 0..100
    /\ (gen.at = "returned") =>
         /\ Len(buf) = CeilDiv(Len(P), arg.chunkSize)
         /\ gen.running = 0
         /\ arg.onProgress => Len(env) = Len(buf)
         /\ env # <<>> => env[Len(env)] = 100

\* C29: readFileInChunks calls onChunk ceil(S/c) times, with offsets 0, c,
\* 2c, ... and the bytes [offset, min(offset + c, S)), each call after the
\* previous one has completed, and then returns; the progress values do not
\* decrease and the last is 100; an empty file gets no call.
C29_CoversFileOnce ==
  /\ []C29_ChunksSoFar
  /\ <>(gen.at = "returned")

\* a file of 7 bytes read in chunks of 3: three calls, the last with one
\* byte, progress 42, 85, 100
C29_Witness ==
  /\ pc = "chunks" /\ gen.at = "returned"
  /\ Len(P) = 7 /\ arg.chunkSize = 3
  /\ Len(buf) = 3 /\ Len(buf[3].chunk) = 1 /\ buf[3].offset = 6
  /\ env = <<42, 85, 100>>

-----------------------------------------------------------------------------
(* Claims on the instance's key                                            *)

\* C30: the instance holds its own copy of the key: whatever the caller
\* writes into the array it passed to the constructor or into an array
\* returned by getKey, and whatever calls were made, the instance's key is
\* the key it was constructed with, and encrypt, decrypt,
\* encryptAuthenticated, decryptAuthenticated and getKey answer as under
\* that key.
C30_KeyIsolation ==
  inst.created =>
    /\ instanceKey = K
    /\ inst.key # arg.passed
    /\ \A k \in 1..Len(arg.held) : arg.held[k] # inst.key
    /\ (pc = "key_getKey") => out = Ok(K)
    /\ (pc = "key_encrypt") => out = Ok(env)
    /\ (pc = "key_decrypt") => out = Ok(P)
    /\ (pc = "key_encryptAuthenticated") => out = Ok(buf)
    /\ (pc = "key_decryptAuthenticated") => out = Ok(P)

\* the caller has overwritten both the array it passed in and the array
\* getKey returned, and decryptAuthenticated still opens what was sealed
\* under the original key
C30_Witness ==
  /\ inst.created /\ pc = "key_decryptAuthenticated"
  /\ Len(arg.held) = 1
  /\ gen.arrays[arg.passed] # K /\ gen.arrays[arg.held[1]] # K
  /\ out = Ok(P)

=============================================================================
